---- MODULE Spec2Model ----
(***************************************************************************)
(* A model of netscanner's packet capture component                        *)
(* (src/components/packetdump.rs): the PacketDump UI actor with its six    *)
(* bounded histories, the lifecycle of the capture worker thread           *)
(* (start_loop / restart_loop / shutdown), the worker's read loop          *)
(* (t_logic) with its dissectors, the bounded action channel between them, *)
(* and the confirmation flag of the export sink (src/components/export.rs).*)
(***************************************************************************)
EXTENDS Integers, Sequences, FiniteSets, Bags, TLC

(***************************************************************************)
(* Bounds of the model.                                                    *)
(***************************************************************************)
\* Threads the controller may spawn in one behaviour (thread::spawn is
\* unbounded in the code; spawning is disabled once all ids are used).
MaxWorkers == 2
\* Frames dissected into a record in one behaviour (each takes the next
\* value of the wall clock).
MaxRecords == 3
\* DumpToggle key presses in one behaviour of the history scenario.
MaxToggles == 2
\* Capacity of the bounded action channel (tokio mpsc).
ChanCap == 2
\* Reads a thread begins after a stop request that are still counted.
MaxReadsCounted == 3
\* Characters the input line takes in one behaviour of the filter scenario.
MaxStr == 2
\* Capacity of each history: packetdump.rs:62 sets 1000; the model scales it
\* down so that a full history and head drops are reached.
MAX_PACKET_HISTORY == 2
\* Calls of Tui::start in a behaviour.
MaxTasks == 2
\* The capacity of the event channel, mpsc::channel(100) in Tui::new, scaled.
EventCap == 2

(***************************************************************************)
(* Values.                                                                 *)
(***************************************************************************)
\* Option::None of loop_thread and of the handle taken out of it.
None == 0
\* active_interface: Option<NetworkInterface> = None.
NoInterface == "none"
Interfaces == {"A", "B"}
WorkerIds == 1..MaxWorkers

\* enums.rs TabsEnum / PacketTypeEnum, in declaration order.
TabsEnum == {"Discovery", "Packets", "Ports"}
PacketTypeEnum == <<"All", "Arp", "Tcp", "Udp", "Icmp", "Icmp6">>
PacketTypes == {PacketTypeEnum[i] : i \in 1..Len(PacketTypeEnum)}
\* enums.rs PacketsInfoTypesEnum: the variants a dissected record can take.
PacketsInfoTypesEnum == {"Arp", "Tcp", "Udp", "Icmp", "Icmp6"}
Modes == {"Normal", "Input"}
\* A String is the sequence of its characters; String::from("") is <<>>.
Chars == {"a", "b"}
\* The records of the filter scenario: a dissected packet with its raw_str.
FilterPackets ==
    { [kind |-> "Udp", raw_str |-> <<"a", "b">>],
      [kind |-> "Arp", raw_str |-> <<"b", "b">>] }
\* The two ways channel creation fails in t_logic.
OpenErrors == {"NotEthernet", "Datalink"}

VARIABLES
    \* ---- fields of struct PacketDump
    active_tab, action_tx, loop_thread, dump_paused, dump_stop,
    active_interface, table_state, packet_type, input, mode, filter_str,
    changed_interface,
    arp_packets, udp_packets, tcp_packets, icmp_packets, icmp6_packets,
    all_packets,
    \* ---- the rest of the world
    threads,      \* every thread spawned by start_loop: its position in t_logic
    chan,         \* the bounded action channel behind action_tx
    clock,        \* Local::now(), as the number of records dissected so far
    toggles,      \* DumpToggle key presses counted by the history scenario
    ui_pc,        \* where the UI thread is: idle, or inside a bounded wait
    handle,       \* the JoinHandle taken by restart_loop / shutdown
    \* ---- struct Export (export.rs)
    export_done,  \* the flag draw renders "exported: .." from
    exported,     \* the CSV files the last ExportData has written
    \* ---- struct Tui (tui.rs) and the event tasks it has spawned
    task,               \* self.task: the id of the task the JoinHandle names
    cancellation_token, \* self.cancellation_token: the id of that token
    cancelled,          \* for every token created so far: was it cancelled
    event_tasks,        \* every task spawned by new and start: its position
    event_queue,        \* the bounded event channel behind event_tx/event_rx
    counter,            \* the local counter of Tui::stop
    tui_pc,             \* where the caller of Tui is: idle, or inside stop
    \* ---- history variables, read by the properties only
    accepted,     \* every record update has pushed, in push order
    discarded     \* the number of records update received and did not push

fields == <<active_tab, action_tx, loop_thread, dump_paused, dump_stop,
            active_interface, table_state, packet_type, input, mode,
            filter_str, changed_interface>>
histories == <<arp_packets, udp_packets, tcp_packets, icmp_packets,
               icmp6_packets, all_packets>>
export_fields == <<export_done, exported>>
tui_fields == <<task, cancellation_token, cancelled, event_tasks, event_queue,
                counter, tui_pc>>
vars == <<fields, histories, threads, chan, clock, toggles, ui_pc, handle,
          accepted, discarded, export_fields, tui_fields>>

(***************************************************************************)
(* utils::MaxSizeVec.  Its source is not among the files of src/; it is    *)
(* modelled from the specification (4.3 Bounded History): a fixed-capacity *)
(* FIFO, push appends and drops the eldest when at capacity.               *)
(***************************************************************************)
MaxSizeVecNew(max_size) == [max_size |-> max_size, deque |-> <<>>]

MaxSizeVecPush(v, item) ==
    IF Len(v.deque) >= v.max_size
    THEN [v EXCEPT !.deque = Append(Tail(@), item)]
    ELSE [v EXCEPT !.deque = Append(@, item)]

(***************************************************************************)
(* Messages on the action channel.                                         *)
(***************************************************************************)
PacketDumpAction(time, packet, ptype) ==
    [type |-> "PacketDump", time |-> time, packet |-> packet,
     packet_type |-> ptype]
ArpRecieveAction == [type |-> "ArpRecieve"]
ErrorAction(msg) == [type |-> "Error", msg |-> msg]
AppModeChangeAction(m) == [type |-> "AppModeChange", mode |-> m]

\* (Two slips of try_send, variants that break C12 and C13: a full channel
\* gives up its oldest message; the message is queued at the front.)
try_send_evicting(ch, msg) ==
    IF Len(ch) < ChanCap THEN Append(ch, msg) ELSE Append(Tail(ch), msg)
try_send_at_front(ch, msg) ==
    IF Len(ch) < ChanCap THEN <<msg>> \o ch ELSE ch

\* Sender::try_send: the message is queued unless the channel is full, and
\* then it is dropped; the sender never waits.
try_send(ch, msg) == IF Len(ch) < ChanCap THEN Append(ch, msg) ELSE ch

(***************************************************************************)
(* The world as one record, so that update can be written as the sequence  *)
(* of assignments it is.                                                   *)
(***************************************************************************)
World ==
    [active_tab |-> active_tab, action_tx |-> action_tx,
     loop_thread |-> loop_thread, dump_paused |-> dump_paused,
     dump_stop |-> dump_stop, active_interface |-> active_interface,
     table_state |-> table_state, packet_type |-> packet_type,
     input |-> input, mode |-> mode, filter_str |-> filter_str,
     changed_interface |-> changed_interface,
     arp_packets |-> arp_packets, udp_packets |-> udp_packets,
     tcp_packets |-> tcp_packets, icmp_packets |-> icmp_packets,
     icmp6_packets |-> icmp6_packets, all_packets |-> all_packets,
     threads |-> threads, chan |-> chan, ui_pc |-> ui_pc,
     handle |-> handle, accepted |-> accepted, discarded |-> discarded,
     \* FALSE once a spawn was needed and no thread id was left
     in_bounds |-> TRUE]

SetWorld(w) ==
    /\ w.in_bounds
    /\ active_tab' = w.active_tab
    /\ action_tx' = w.action_tx
    /\ loop_thread' = w.loop_thread
    /\ dump_paused' = w.dump_paused
    /\ dump_stop' = w.dump_stop
    /\ active_interface' = w.active_interface
    /\ table_state' = w.table_state
    /\ packet_type' = w.packet_type
    /\ input' = w.input
    /\ mode' = w.mode
    /\ filter_str' = w.filter_str
    /\ changed_interface' = w.changed_interface
    /\ arp_packets' = w.arp_packets
    /\ udp_packets' = w.udp_packets
    /\ tcp_packets' = w.tcp_packets
    /\ icmp_packets' = w.icmp_packets
    /\ icmp6_packets' = w.icmp6_packets
    /\ all_packets' = w.all_packets
    /\ threads' = w.threads
    /\ chan' = w.chan
    /\ ui_pc' = w.ui_pc
    /\ handle' = w.handle
    /\ accepted' = w.accepted
    /\ discarded' = w.discarded
    \* struct Export is another component
    /\ UNCHANGED <<export_fields, tui_fields>>

(***************************************************************************)
(* Threads.                                                                *)
(***************************************************************************)
\* A thread: its position in t_logic (pc), the interface it captures on,
\* and two fields read by the properties only: the value the stop flag had
\* when the thread was spawned, and since_stop, which is 0 until true is
\* stored to the stop flag while the thread is in its read loop, and from then on 1 +
\* the number of reads the thread has begun since (counted up to
\* MaxReadsCounted).
NoThread ==
    [pc |-> "idle", iface |-> NoInterface, stop_at_spawn |-> FALSE,
     since_stop |-> 0]
\* JoinHandle::is_finished: t_logic has returned.
is_finished(t) == t.pc \in {"done", "failed"}
\* A thread that was spawned and has not terminated.
Alive(t) == t.pc \in {"open", "check", "recv", "arp"}
\* A thread inside the read loop of t_logic.
InLoop(t) == t.pc \in {"check", "recv", "arp"}
\* dump_stop.store(true, SeqCst), lines 585, 1315: every thread in its read
\* loop at the store has the request pending from now on.
store_stop(w) ==
    [w EXCEPT !.dump_stop = TRUE,
              !.threads = [i \in WorkerIds |->
                              IF InLoop(@[i]) /\ @[i].since_stop = 0
                              THEN [@[i] EXCEPT !.since_stop = 1]
                              ELSE @[i]]]
FreeIds(ths) == {i \in WorkerIds : ths[i].pc = "idle"}

(***************************************************************************)
(* PacketDump::new.                                                        *)
(***************************************************************************)
\* Option::None of TableState::selected.
NoneSelected == -1

\* (A history created one entry too large: a variant that breaks C3.)
NewHistoryOversized == MaxSizeVecNew(MAX_PACKET_HISTORY + 1)

\* new, lines 120-125: each history is MaxSizeVec::new(MAX_PACKET_HISTORY).
NewHistory == MaxSizeVecNew(MAX_PACKET_HISTORY)

(***************************************************************************)
(* Lifecycle controller.                                                   *)
(***************************************************************************)
\* The thread start_loop spawns: it enters t_logic for the interface that is
\* active at the spawn, and shares the dump_stop flag.
Spawned(w) ==
    [pc |-> "open", iface |-> w.active_interface, stop_at_spawn |-> w.dump_stop,
     since_stop |-> 0]

\* (start_loop that also replaces the handle of a finished thread: a
\* variant that breaks C34.)
start_loop_replacing_finished(w) ==
    IF (w.loop_thread = None \/ is_finished(w.threads[w.loop_thread]))
       /\ w.action_tx /\ w.active_interface # NoInterface
    THEN IF FreeIds(w.threads) = {}
         THEN [w EXCEPT !.in_bounds = FALSE]
         ELSE LET id == CHOOSE i \in FreeIds(w.threads) :
                            \A j \in FreeIds(w.threads) : i <= j
              IN  [w EXCEPT !.threads[id] = Spawned(w), !.loop_thread = id]
    ELSE w

start_loop(w) ==
    IF w.loop_thread = None /\ w.action_tx /\ w.active_interface # NoInterface
    THEN IF FreeIds(w.threads) = {}
         THEN [w EXCEPT !.in_bounds = FALSE]
         ELSE LET id == CHOOSE i \in FreeIds(w.threads) :
                            \A j \in FreeIds(w.threads) : i <= j
              IN  [w EXCEPT !.threads[id] = Spawned(w), !.loop_thread = id]
    ELSE w

\* (restart_loop that forgets to store the stop flag: a variant that breaks C10.)
restart_loop_without_stop(w) ==
    IF w.loop_thread # None
    THEN [w EXCEPT !.handle = w.loop_thread, !.loop_thread = None,
                   !.ui_pc = "restart_wait"]
    ELSE w

\* restart_loop up to its wait: the stop flag is stored, the handle is
\* taken out of loop_thread, and the UI thread polls handle.is_finished().
restart_loop(w) ==
    LET w1 == store_stop(w)
    IN  IF w1.loop_thread # None
        THEN [w1 EXCEPT !.handle = w1.loop_thread, !.loop_thread = None,
                        !.ui_pc = "restart_wait"]
        ELSE w1

\* update, lines 1206-1222: the deferred start after an interface change.
check_changed_interface(w) ==
    IF w.changed_interface
    THEN IF w.loop_thread # None
         THEN IF is_finished(w.threads[w.loop_thread])
              THEN [start_loop([w EXCEPT !.loop_thread = None,
                                         !.dump_stop = FALSE])
                       EXCEPT !.changed_interface = FALSE]
              ELSE w
         ELSE [start_loop([w EXCEPT !.dump_stop = FALSE])
                  EXCEPT !.changed_interface = FALSE]
    ELSE w

tab_changed(w, tab) == [w EXCEPT !.active_tab = tab]

\* (ActiveInterface handled as a first selection every time: a variant that
\* breaks C28.)
on_active_interface_starting(w, interface) ==
    start_loop([w EXCEPT !.active_interface = interface])

\* update, lines 1229-1241.
on_active_interface(w, interface) ==
    LET was_none == w.active_interface = NoInterface
        w1 == [w EXCEPT !.active_interface = interface]
    IN  IF was_none
        THEN start_loop(w1)
        ELSE restart_loop([w1 EXCEPT !.changed_interface = TRUE])

(***************************************************************************)
(* Table navigation and packet type.                                       *)
(***************************************************************************)
get_array_by_packet_type(w, ptype) ==
    CASE ptype = "Arp" -> w.arp_packets.deque
      [] ptype = "Tcp" -> w.tcp_packets.deque
      [] ptype = "Udp" -> w.udp_packets.deque
      [] ptype = "Icmp" -> w.icmp_packets.deque
      [] ptype = "Icmp6" -> w.icmp6_packets.deque
      [] ptype = "All" -> w.all_packets.deque

\* (from_repr(index).unwrap_or_default(): a variant that breaks C14.)
FromReprOrDefault(index, self) ==
    IF index \in 0..(Len(PacketTypeEnum) - 1)
    THEN PacketTypeEnum[index + 1]
    ELSE PacketTypeEnum[1]

\* `*self as usize`, as a 0-based discriminant.
Repr(ptype) == (CHOOSE i \in 1..Len(PacketTypeEnum) : PacketTypeEnum[i] = ptype) - 1
\* from_repr(index).unwrap_or(self)
FromReprOr(index, self) ==
    IF index \in 0..(Len(PacketTypeEnum) - 1) THEN PacketTypeEnum[index + 1] ELSE self

previous(ptype) ==
    LET current_index == Repr(ptype)
        previous_index == IF current_index = 0 THEN 0 ELSE current_index - 1
    IN  FromReprOr(previous_index, ptype)

\* (next that wraps around after the last value: a variant that breaks C15.)
next_cyclic(ptype) ==
    LET current_index == Repr(ptype)
        next_index == (current_index + 1) % Len(PacketTypeEnum)
    IN  FromReprOr(next_index, ptype)

next(ptype) ==
    LET current_index == Repr(ptype)
        next_index == current_index + 1
    IN  FromReprOr(next_index, ptype)

\* (previous_in_table wrapping to logs.len(): a variant that breaks C16.)
previous_in_table_past_end(w) ==
    LET sel == w.table_state
        logs_len == Len(get_array_by_packet_type(w, w.packet_type))
        index == IF sel # NoneSelected
                 THEN IF sel = 0 THEN logs_len ELSE sel - 1
                 ELSE 0
    IN  [w EXCEPT !.table_state = index]

previous_in_table(w) ==
    LET sel == w.table_state
        logs_len == Len(get_array_by_packet_type(w, w.packet_type))
        index == IF sel # NoneSelected
                 THEN IF sel = 0
                      THEN IF logs_len > 0 THEN logs_len - 1 ELSE 0
                      ELSE sel - 1
                 ELSE 0
    IN  [w EXCEPT !.table_state = index]

\* (next_in_table that stays on the last row: a variant that breaks C17.)
next_in_table_clamping(w) ==
    LET sel == w.table_state
        logs_len == Len(get_array_by_packet_type(w, w.packet_type))
        index == IF sel # NoneSelected
                 THEN IF logs_len = 0 THEN 0
                      ELSE IF sel >= logs_len - 1 THEN logs_len - 1 ELSE sel + 1
                 ELSE 0
    IN  [w EXCEPT !.table_state = index]

next_in_table(w) ==
    LET sel == w.table_state
        logs_len == Len(get_array_by_packet_type(w, w.packet_type))
        index == IF sel # NoneSelected
                 THEN IF logs_len = 0 \/ sel >= logs_len - 1 THEN 0 ELSE sel + 1
                 ELSE 0
    IN  [w EXCEPT !.table_state = index]

(***************************************************************************)
(* The filter of the packet table.                                         *)
(***************************************************************************)
\* (str::starts_with in place of str::contains: a variant that breaks C19.)
starts_with(raw, f_str) ==
    Len(f_str) <= Len(raw) /\ SubSeq(raw, 1, Len(f_str)) = f_str

\* str::contains(&str): f_str occurs in raw at some offset.
contains(raw, f_str) ==
    \E offset \in 0..(Len(raw) - Len(f_str)) :
        SubSeq(raw, offset + 1, offset + Len(f_str)) = f_str

\* lines 931-937: every variant of PacketsInfoTypesEnum carries a raw_str,
\* and the match tests it the same way.
matches_filter(p, f_str) == contains(p.raw_str, f_str)

\* (A loop that skips the first entry of logs_data: a variant that breaks
\* C20.)
filter_logs_skipping_first(logs_data, f_str) ==
    IF logs_data = <<>> THEN <<>>
    ELSE SelectSeq(Tail(logs_data), LAMBDA e : matches_filter(e[2], f_str))

\* lines 928-943: the loop over logs_data that pushes the matching entries
\* to logs.
RECURSIVE filter_logs(_, _)
filter_logs(logs_data, f_str) ==
    IF logs_data = <<>>
    THEN <<>>
    ELSE LET d_p == Head(logs_data)
             rest == filter_logs(Tail(logs_data), f_str)
         IN  IF matches_filter(d_p[2], f_str) THEN <<d_p>> \o rest ELSE rest

\* get_table_rows_by_packet_type: one row per entry of logs, in order (the
\* formatting of a row is not modelled; a row stands for its entry).
get_table_rows_by_packet_type(w, ptype) ==
    filter_logs(get_array_by_packet_type(w, ptype), w.filter_str)

set_filter_str(w, value) == [w EXCEPT !.filter_str = value]

\* (handle_key_events without its test of the mode: a variant that breaks
\* C37.)
handle_key_events_any_mode(w, key) ==
    IF w.active_tab = "Packets"
    THEN IF key = "Enter"
         THEN IF w.action_tx THEN set_filter_str(w, w.input) ELSE w
         ELSE IF key = "Backspace"
              THEN [w EXCEPT !.input = IF @ = <<>> THEN @
                                       ELSE SubSeq(@, 1, Len(@) - 1)]
              ELSE [w EXCEPT !.input = Append(@, key)]
    ELSE w

\* handle_key_events, lines 1180-1202.  Keys are Enter, Backspace and the
\* characters; the input line appends a character and Backspace removes the
\* last one.  The Action the method returns is handle_key_events_action.
handle_key_events(w, key) ==
    IF w.active_tab = "Packets" /\ w.mode = "Input"
    THEN IF key = "Enter"
         THEN IF w.action_tx THEN set_filter_str(w, w.input) ELSE w
         ELSE IF key = "Backspace"
              THEN [w EXCEPT !.input = IF @ = <<>> THEN @
                                       ELSE SubSeq(@, 1, Len(@) - 1)]
              ELSE [w EXCEPT !.input = Append(@, key)]
    ELSE w

\* Ok(None), the result of a handler that returns no action.
NoAction == [type |-> "NoAction"]

\* handle_key_events, lines 1180-1202: the Option<Action> it returns.
handle_key_events_action(w, key) ==
    IF w.active_tab = "Packets" /\ w.mode = "Input" /\ key = "Enter"
    THEN [type |-> "ModeChange", mode |-> "Normal"]
    ELSE NoAction

(***************************************************************************)
(* update: the branches of the Packets tab, and the packet record.         *)
(***************************************************************************)
\* update, lines 1263-1271.
on_dump_toggle(w) ==
    IF w.dump_paused
    THEN start_loop([w EXCEPT !.dump_paused = FALSE])
    ELSE [w EXCEPT !.dump_paused = TRUE, !.loop_thread = None]

\* (ModeChange that only assigns the mode: a variant that breaks C30.)
on_mode_change_silent(w, m) == [w EXCEPT !.mode = m]

\* update, lines 1274-1279.
on_mode_change(w, m) ==
    LET w1 == IF w.action_tx
              THEN [w EXCEPT !.chan = try_send(@, AppModeChangeAction(m))]
              ELSE w
    IN  [w1 EXCEPT !.mode = m]

\* (Clear emptying the histories as well: a variant that breaks C29.)
on_clear_with_histories(w) ==
    [w EXCEPT !.input = <<>>, !.filter_str = <<>>,
              !.arp_packets = NewHistory, !.udp_packets = NewHistory,
              !.tcp_packets = NewHistory, !.icmp_packets = NewHistory,
              !.icmp6_packets = NewHistory, !.all_packets = NewHistory]

\* (Clear resetting the input line only: a variant that breaks C31.)
on_clear_input_only(w) == [w EXCEPT !.input = <<>>]

\* update, lines 1282-1285.
on_clear(w) == [w EXCEPT !.input = <<>>, !.filter_str = <<>>]

\* (The Right arm without table_state.select(Some(0)): a variant that
\* breaks C18.)
on_right_keeping_selection(w) == [w EXCEPT !.packet_type = next(@)]

\* update, lines 1250-1255 and 1256-1261.
on_left(w) == [w EXCEPT !.packet_type = previous(@), !.table_state = 0]
on_right(w) == [w EXCEPT !.packet_type = next(@), !.table_state = 0]

\* update, lines 1242-1286.
on_packets_tab(w, action) ==
    CASE action.type = "Down" -> next_in_table(w)
      [] action.type = "Up" -> previous_in_table(w)
      [] action.type = "Left" -> on_left(w)
      [] action.type = "Right" -> on_right(w)
      [] action.type = "DumpToggle" -> on_dump_toggle(w)
      [] action.type = "ModeChange" -> on_mode_change(w, action.mode)
      [] action.type = "Clear" -> on_clear(w)
      [] OTHER -> w

\* The entry a history stores: (time, packet).
Entry(action) == <<action.time, action.packet>>

\* update, lines 1291-1298: the bucket of the record's packet_type.
\* (Three slips of that match, variants that break C4, C5 and C6: two arms
\* swapped, one arm filing into its neighbour's bucket, one arm missing.)
PushKindBucketSwapped(w, action) ==
    LET e == Entry(action)
    IN  CASE action.packet_type = "Tcp" -> [w EXCEPT !.udp_packets = MaxSizeVecPush(@, e)]
          [] action.packet_type = "Arp" -> [w EXCEPT !.arp_packets = MaxSizeVecPush(@, e)]
          [] action.packet_type = "Udp" -> [w EXCEPT !.tcp_packets = MaxSizeVecPush(@, e)]
          [] action.packet_type = "Icmp" -> [w EXCEPT !.icmp_packets = MaxSizeVecPush(@, e)]
          [] action.packet_type = "Icmp6" -> [w EXCEPT !.icmp6_packets = MaxSizeVecPush(@, e)]
          [] OTHER -> w

PushKindBucketMisfiled(w, action) ==
    LET e == Entry(action)
    IN  CASE action.packet_type = "Tcp" -> [w EXCEPT !.tcp_packets = MaxSizeVecPush(@, e)]
          [] action.packet_type = "Arp" -> [w EXCEPT !.arp_packets = MaxSizeVecPush(@, e)]
          [] action.packet_type = "Udp" -> [w EXCEPT !.udp_packets = MaxSizeVecPush(@, e)]
          [] action.packet_type = "Icmp" -> [w EXCEPT !.icmp_packets = MaxSizeVecPush(@, e)]
          [] action.packet_type = "Icmp6" -> [w EXCEPT !.icmp_packets = MaxSizeVecPush(@, e)]
          [] OTHER -> w

PushKindBucketArmMissing(w, action) ==
    LET e == Entry(action)
    IN  CASE action.packet_type = "Tcp" -> [w EXCEPT !.tcp_packets = MaxSizeVecPush(@, e)]
          [] action.packet_type = "Arp" -> [w EXCEPT !.arp_packets = MaxSizeVecPush(@, e)]
          [] action.packet_type = "Icmp" -> [w EXCEPT !.icmp_packets = MaxSizeVecPush(@, e)]
          [] action.packet_type = "Icmp6" -> [w EXCEPT !.icmp6_packets = MaxSizeVecPush(@, e)]
          [] OTHER -> w

PushKindBucket(w, action) ==
    LET e == Entry(action)
    IN  CASE action.packet_type = "Tcp" -> [w EXCEPT !.tcp_packets = MaxSizeVecPush(@, e)]
          [] action.packet_type = "Arp" -> [w EXCEPT !.arp_packets = MaxSizeVecPush(@, e)]
          [] action.packet_type = "Udp" -> [w EXCEPT !.udp_packets = MaxSizeVecPush(@, e)]
          [] action.packet_type = "Icmp" -> [w EXCEPT !.icmp_packets = MaxSizeVecPush(@, e)]
          [] action.packet_type = "Icmp6" -> [w EXCEPT !.icmp6_packets = MaxSizeVecPush(@, e)]
          [] OTHER -> w

\* (on_packet_dump without its test of the pause flag: a variant that breaks C2.)
on_packet_dump_ignoring_pause(w, action) ==
    IF action.type = "PacketDump"
    THEN [PushKindBucket(w, action)
             EXCEPT !.all_packets = MaxSizeVecPush(@, Entry(action)),
                    !.accepted = Append(@, action)]
    ELSE w

\* update, lines 1288-1301.
on_packet_dump(w, action) ==
    IF ~w.dump_paused
    THEN IF action.type = "PacketDump"
         THEN [PushKindBucket(w, action)
                  EXCEPT !.all_packets = MaxSizeVecPush(@, Entry(action)),
                         !.accepted = Append(@, action)]
         ELSE w
    ELSE IF action.type = "PacketDump"
         THEN [w EXCEPT !.discarded = @ + 1]
         ELSE w

\* (update with the Packets-tab arms applied on every tab: a variant that
\* breaks C36.)
update_ungated(w, action) ==
    LET w1 == check_changed_interface(w)
        w2 == IF action.type = "TabChange" THEN tab_changed(w1, action.tab) ELSE w1
        w3 == IF action.type = "ActiveInterface"
              THEN on_active_interface(w2, action.interface)
              ELSE w2
    IN  on_packet_dump(on_packets_tab(w3, action), action)

\* update, lines 1204-1304.  After ActiveInterface nothing follows
\* restart_loop: no later branch of update matches that action.
update(w, action) ==
    LET w1 == check_changed_interface(w)
        w2 == IF action.type = "TabChange" THEN tab_changed(w1, action.tab) ELSE w1
        w3 == IF action.type = "ActiveInterface"
              THEN on_active_interface(w2, action.interface)
              ELSE w2
        w4 == IF w3.active_tab = "Packets" THEN on_packets_tab(w3, action) ELSE w3
    IN  on_packet_dump(w4, action)

\* shutdown up to its wait, lines 1311-1324.
shutdown(w) ==
    LET w1 == store_stop(w)
    IN  IF w1.loop_thread # None
        THEN [w1 EXCEPT !.handle = w1.loop_thread, !.loop_thread = None,
                        !.ui_pc = "shutdown_wait"]
        ELSE w1

(***************************************************************************)
(* Tui (tui.rs): values.                                                   *)
(***************************************************************************)
\* Task 0 is the empty task Tui::new spawns; task k is the one the k-th call
\* of start spawns.  Token 0 is the one Tui::new creates; token k is the one
\* the k-th call of start creates and moves a clone of into task k.
TaskIds == 1..MaxTasks
AllTaskIds == 0..MaxTasks

\* enum Event, lines 31-44, without a payload.
Events == {"Init", "Quit", "Error", "Closed", "Tick", "Render", "FocusGained",
           "FocusLost", "Paste", "Key", "Mouse", "Resize"}

\* What reader.next() can return, lines 116-147: Some(Ok(evt)) for each
\* variant of crossterm's Event (a key with its kind), Some(Err(_)), None.
CrosstermEvents == {"KeyPress", "KeyRelease", "Mouse", "Resize", "FocusLost",
                    "FocusGained", "Paste", "Err", "None"}

\* stop, lines 166 and 169: the polls after which the task is aborted and
\* after which stop returns.
AbortAfter == 50
GiveUpAfter == 100

\* (A send that queues the event whatever the length of the channel: a
\* variant that breaks C40.)
event_send_unbounded(q, ev) == Append(q, ev)

\* Sender::try_send on the event channel: the event is queued if there is
\* room and dropped otherwise.
event_try_send(q, ev) == IF Len(q) < EventCap THEN Append(q, ev) ELSE q

\* The match on maybe_event, lines 117-147: the channel after the arm.
on_crossterm_event(q, evt) ==
    CASE evt = "KeyPress" -> event_try_send(q, "Key")
      [] evt = "KeyRelease" -> q
      [] evt = "Mouse" -> event_try_send(q, "Mouse")
      [] evt = "Resize" -> event_try_send(q, "Resize")
      [] evt = "FocusLost" -> event_try_send(q, "FocusLost")
      [] evt = "FocusGained" -> event_try_send(q, "FocusGained")
      [] evt = "Paste" -> event_try_send(q, "Paste")
      [] evt = "Err" -> event_try_send(q, "Error")
      [] evt = "None" -> q

\* JoinHandle::is_finished.
task_is_finished(t) == event_tasks[t].pc = "done"

(***************************************************************************)
(* The initial state: PacketDump::new, no thread, an empty channel.        *)
(***************************************************************************)
Init ==
    /\ active_tab = "Discovery"
    /\ action_tx = FALSE
    /\ loop_thread = None
    /\ dump_paused = FALSE
    /\ dump_stop = FALSE
    /\ active_interface = NoInterface
    /\ table_state = 0
    /\ packet_type = "All"
    /\ input = <<>>
    /\ mode = "Normal"
    /\ filter_str = <<>>
    /\ changed_interface = FALSE
    /\ arp_packets = NewHistory
    /\ udp_packets = NewHistory
    /\ tcp_packets = NewHistory
    /\ icmp_packets = NewHistory
    /\ icmp6_packets = NewHistory
    /\ all_packets = NewHistory
    /\ threads = [i \in WorkerIds |-> NoThread]
    /\ chan = <<>>
    /\ clock = 0
    /\ toggles = 0
    /\ ui_pc = "idle"
    /\ handle = None
    /\ accepted = <<>>
    /\ discarded = 0
    \* Export::new, export.rs lines 21-28
    /\ export_done = FALSE
    /\ exported = {}
    \* Tui::new, tui.rs lines 59-71: an empty channel, a fresh token and a
    \* task with an empty body
    /\ task = 0
    /\ cancellation_token = 0
    /\ cancelled = [k \in AllTaskIds |-> FALSE]
    /\ event_tasks = [t \in AllTaskIds |->
                         IF t = 0 THEN [pc |-> "empty", aborted |-> FALSE]
                         ELSE [pc |-> "unspawned", aborted |-> FALSE]]
    /\ event_queue = <<>>
    /\ counter = 0
    /\ tui_pc = "idle"

(***************************************************************************)
(* The UI thread.                                                          *)
(***************************************************************************)
\* Component::register_action_handler, lines 1171-1174.
RegisterActionHandler ==
    /\ ui_pc = "idle"
    /\ ~action_tx
    /\ action_tx' = TRUE
    /\ UNCHANGED <<active_tab, loop_thread, dump_paused, dump_stop,
                   active_interface, table_state, packet_type, input, mode,
                   filter_str, changed_interface, histories, threads, chan,
                   clock, toggles, ui_pc, handle, accepted, discarded, export_fields, tui_fields>>

\* One call of update with an action that did not come from a worker.
Update(action) ==
    /\ ui_pc = "idle"
    /\ SetWorld(update(World, action))
    /\ UNCHANGED <<clock, toggles>>

UpdateTabChange(tab) == Update([type |-> "TabChange", tab |-> tab])
UpdateActiveInterface(i) == Update([type |-> "ActiveInterface", interface |-> i])
UpdateDumpToggle == Update([type |-> "DumpToggle"])
\* The same call, counted: the history scenario bounds the key presses.
UpdateDumpToggleCounted ==
    /\ ui_pc = "idle"
    /\ toggles < MaxToggles
    /\ toggles' = toggles + 1
    /\ SetWorld(update(World, [type |-> "DumpToggle"]))
    /\ UNCHANGED clock
UpdateTick == Update([type |-> "Tick"])
UpdateModeChange(m) == Update([type |-> "ModeChange", mode |-> m])
UpdateClear == Update([type |-> "Clear"])
\* One call of handle_key_events; the input line is bounded.
HandleKeyEvents(key) ==
    /\ ui_pc = "idle"
    /\ key \in Chars => Len(input) < MaxStr
    /\ SetWorld(handle_key_events(World, key))
    /\ UNCHANGED <<clock, toggles>>
UpdateDown == Update([type |-> "Down"])
UpdateUp == Update([type |-> "Up"])
UpdateLeft == Update([type |-> "Left"])
UpdateRight == Update([type |-> "Right"])
\* update(Action::PacketDump(time, packet, kind)) for a record stamped with
\* the next value of the clock.
UpdateRecord(packet, kind) ==
    /\ ui_pc = "idle"
    /\ clock < MaxRecords
    /\ clock' = clock + 1
    /\ SetWorld(update(World, PacketDumpAction(clock + 1, packet, kind)))
    /\ UNCHANGED toggles

\* The application loop receives the next message of the channel and hands
\* it to update.
UpdateFromChannel ==
    /\ ui_pc = "idle"
    /\ chan # <<>>
    /\ SetWorld(update([World EXCEPT !.chan = Tail(chan)], Head(chan)))
    /\ UNCHANGED <<clock, toggles>>

\* A variant that breaks C35: the handle is dropped when the wait times
\* out.
RestartWaitEndDropping ==
    /\ ui_pc = "restart_wait"
    /\ loop_thread' = None
    /\ handle' = None
    /\ ui_pc' = "idle"
    /\ UNCHANGED <<active_tab, action_tx, dump_paused, dump_stop,
                   active_interface, table_state, packet_type, input, mode,
                   filter_str, changed_interface, histories, threads, chan,
                   clock, toggles, accepted, discarded, export_fields, tui_fields>>

\* restart_loop, lines 595-611: the wait ends because the thread finished or
\* because the second elapsed; a finished thread is joined, an unfinished
\* one is stored back into loop_thread.
RestartWaitEnd ==
    /\ ui_pc = "restart_wait"
    /\ loop_thread' = IF is_finished(threads[handle]) THEN None ELSE handle
    /\ handle' = None
    /\ ui_pc' = "idle"
    /\ UNCHANGED <<active_tab, action_tx, dump_paused, dump_stop,
                   active_interface, table_state, packet_type, input, mode,
                   filter_str, changed_interface, histories, threads, chan,
                   clock, toggles, accepted, discarded, export_fields, tui_fields>>

\* Component::shutdown, lines 1311-1324.
Shutdown ==
    /\ ui_pc = "idle"
    /\ SetWorld(shutdown(World))
    /\ UNCHANGED <<clock, toggles>>

\* A variant that breaks C27: the handle is joined whether or not the
\* thread has finished, so the call returns only once the thread has.
ShutdownWaitEndJoining ==
    /\ ui_pc = "shutdown_wait"
    /\ is_finished(threads[handle])
    /\ handle' = None
    /\ ui_pc' = "idle"
    /\ UNCHANGED <<fields, histories, threads, chan, clock, toggles, accepted,
                   discarded, export_fields, tui_fields>>

\* shutdown, lines 1326-1336: a finished thread is joined, the handle of an
\* unfinished one is dropped; loop_thread stays None either way.
ShutdownWaitEnd ==
    /\ ui_pc = "shutdown_wait"
    /\ handle' = None
    /\ ui_pc' = "idle"
    /\ UNCHANGED <<fields, histories, threads, chan, clock, toggles, accepted,
                   discarded, export_fields, tui_fields>>

(***************************************************************************)
(* The export sink (export.rs).                                            *)
(***************************************************************************)
\* update, lines 184-190: the seven files of one export, by name.
ExportFiles ==
    {"scanned_ips", "scanned_ports", "arp", "tcp", "udp", "icmp", "icmp6"}

\* The writes of one export that return Err: none, one, or all of them
\* (no directory).
WriteFailures == {{}, {"arp"}, ExportFiles}

\* Export::update, lines 177-197, on the Export component e; failing is the
\* set of files whose write_* returns Err.  Each result is discarded with
\* `let _ =`, and export_done is assigned after the seven writes.
export_update(e, action, failing) ==
    IF action.type = "ExportData"
    THEN [export_done |-> TRUE, exported |-> ExportFiles \ failing]
    ELSE e

\* One call of Export::update.
ExportUpdate(action, failing) ==
    LET e == export_update([export_done |-> export_done,
                            exported |-> exported], action, failing)
    IN  /\ ui_pc = "idle"
        /\ export_done' = e.export_done
        /\ exported' = e.exported
        /\ UNCHANGED <<fields, histories, threads, chan, clock, toggles,
                       ui_pc, handle, accepted, discarded, tui_fields>>

(***************************************************************************)
(* Dissection.  A frame is described by what the parsers return for it:    *)
(* each handler is the sequence of messages it sends for the frame.        *)
(***************************************************************************)
\* icmp.rs IcmpTypes: the two echo types and one of the others.
IcmpTypes == {"EchoReply", "EchoRequest", "DestinationUnreachable"}

\* An Ethernet frame carrying a well-formed UDP datagram over IPv4.
\*   has_payload: packet.len() > payload_offset (line 509)
\*   peek_ok, version: Ipv4Packet::new(&packet[payload_offset..]) and its
\*            get_version() (lines 521-524)
\*   eth_ok, ethertype: EthernetPacket::new(packet) and get_ethertype()
\*   net_ok:  Ipv4Packet::new / Ipv6Packet::new / ArpPacket::new is Some
\*   protocol: get_next_level_protocol() / get_next_header()
\*   l4_ok:   UdpPacket::new / TcpPacket::new / IcmpPacket::new /
\*            Icmpv6Packet::new is Some
\*   icmp_type, echo_ok: get_icmp_type() and EchoReplyPacket::new /
\*            EchoRequestPacket::new is Some
UdpFrame ==
    [has_payload |-> TRUE, peek_ok |-> TRUE, version |-> 4, eth_ok |-> TRUE,
     ethertype |-> "Ipv4", net_ok |-> TRUE, protocol |-> "Udp",
     l4_ok |-> TRUE, icmp_type |-> "EchoRequest", echo_ok |-> TRUE]

\* Every ICMP-over-IPv4 frame: each type, parsing or not.
IcmpFrames ==
    { [UdpFrame EXCEPT !.protocol = "Icmp", !.icmp_type = ty, !.l4_ok = a,
                       !.echo_ok = b] :
        ty \in IcmpTypes, a \in BOOLEAN, b \in BOOLEAN }

\* A packet whose version nibble is 5 and whose bytes, read as an Ethernet
\* frame, give ethertype 0x0800 and a well-formed TCP segment.
Version5Frame ==
    [UdpFrame EXCEPT !.version = 5, !.protocol = "Tcp"]

\* An IPv6 packet without Ethernet header, carrying ICMPv6; read as an
\* Ethernet frame its ethertype is none of the three dissected ones.
RawIpv6Frame ==
    [UdpFrame EXCEPT !.version = 6, !.ethertype = "Other",
                     !.protocol = "Icmpv6"]

\* The frames the workers read.
Frames ==
    { UdpFrame, Version5Frame, RawIpv6Frame }
    \cup { f \in IcmpFrames : f.l4_ok /\ (f.echo_ok \/ f.icmp_type = "EchoRequest") }

\* handle_udp_packet, lines 129-162.
handle_udp_packet(f, time) ==
    IF f.l4_ok
    THEN <<PacketDumpAction(time, [kind |-> "Udp"], "Udp")>>
    ELSE <<>>

\* A variant that breaks C24: a record for every ICMP type.
handle_icmp_packet_any_type(f, time) ==
    IF f.l4_ok
    THEN <<PacketDumpAction(time,
               [kind |-> "Icmp", icmp_type |-> f.icmp_type], "Icmp")>>
    ELSE <<>>

\* handle_icmp_packet, lines 164-235.
handle_icmp_packet(f, time) ==
    IF f.l4_ok
    THEN CASE f.icmp_type = "EchoReply" ->
                IF f.echo_ok
                THEN <<PacketDumpAction(time,
                           [kind |-> "Icmp", icmp_type |-> "EchoReply"],
                           "Icmp")>>
                ELSE <<>>
           [] f.icmp_type = "EchoRequest" ->
                IF f.echo_ok
                THEN <<PacketDumpAction(time,
                           [kind |-> "Icmp", icmp_type |-> "EchoRequest"],
                           "Icmp")>>
                ELSE <<>>
           [] OTHER -> <<>>
    ELSE <<>>

\* handle_icmpv6_packet, lines 237-266.
handle_icmpv6_packet(f, time) ==
    IF f.l4_ok
    THEN <<PacketDumpAction(time, [kind |-> "Icmp6"], "Icmp6")>>
    ELSE <<>>

\* handle_tcp_packet, lines 268-301.
handle_tcp_packet(f, time) ==
    IF f.l4_ok
    THEN <<PacketDumpAction(time, [kind |-> "Tcp"], "Tcp")>>
    ELSE <<>>

\* handle_transport_protocol, lines 303-326.
handle_transport_protocol(f, time) ==
    CASE f.protocol = "Udp" -> handle_udp_packet(f, time)
      [] f.protocol = "Tcp" -> handle_tcp_packet(f, time)
      [] f.protocol = "Icmp" -> handle_icmp_packet(f, time)
      [] f.protocol = "Icmpv6" -> handle_icmpv6_packet(f, time)
      [] OTHER -> <<>>

\* handle_ipv4_packet, lines 328-345.
handle_ipv4_packet(f, time) ==
    IF f.net_ok THEN handle_transport_protocol(f, time) ELSE <<>>

\* handle_ipv6_packet, lines 347-364.
handle_ipv6_packet(f, time) ==
    IF f.net_ok THEN handle_transport_protocol(f, time) ELSE <<>>

\* handle_arp_packet, lines 366-404.
handle_arp_packet(f, time) ==
    IF f.net_ok
    THEN <<ArpRecieveAction, PacketDumpAction(time, [kind |-> "Arp"], "Arp")>>
    ELSE <<>>

\* handle_ethernet_frame, lines 406-418, for a frame of the given ethertype.
handle_ethernet_frame(ethertype, f, time) ==
    CASE ethertype = "Ipv4" -> handle_ipv4_packet(f, time)
      [] ethertype = "Ipv6" -> handle_ipv6_packet(f, time)
      [] ethertype = "Arp" -> handle_arp_packet(f, time)
      [] OTHER -> <<>>

\* t_logic, lines 495-499: interface A is a broadcast (Ethernet) interface;
\* interface B is an up, non-broadcast, point-to-point interface of a
\* macOS/iOS build (payload_offset = 0).
NeedsAdjustment(interface) == interface = "B"

\* t_logic, lines 549-556: the packet as it came, parsed as Ethernet.
ParseEthernet(f, time) ==
    IF f.eth_ok THEN handle_ethernet_frame(f.ethertype, f, time) ELSE <<>>

\* t_logic, lines 482-557: what the worker sends for one packet it read.
\* With a version that is neither 4 nor 6 no branch of lines 525-547 is
\* taken and control leaves the adjustment block for line 549.
OnPacket(interface, f, time) ==
    IF NeedsAdjustment(interface) /\ f.has_payload
    THEN IF ~f.peek_ok THEN <<>>
         ELSE IF f.version = 4 THEN handle_ethernet_frame("Ipv4", f, time)
         ELSE IF f.version = 6 THEN handle_ethernet_frame("Ipv6", f, time)
         ELSE ParseEthernet(f, time)
    ELSE ParseEthernet(f, time)

(***************************************************************************)
(* The capture worker: t_logic, one step per action.                       *)
(***************************************************************************)
SetPc(t, pc) == threads' = [threads EXCEPT ![t].pc = pc]

\* lines 444-445: the channel is an Ethernet channel.
WorkerOpenOk(t) ==
    /\ threads[t].pc = "open"
    /\ SetPc(t, "check")
    /\ UNCHANGED <<fields, histories, chan, clock, toggles, ui_pc, handle,
                   accepted, discarded, export_fields, tui_fields>>

\* A variant that breaks C21: the thread returns without sending the Error.
WorkerOpenFailSilent(t, err) ==
    /\ threads[t].pc = "open"
    /\ SetPc(t, "failed")
    /\ UNCHANGED <<fields, histories, chan, clock, toggles, ui_pc, handle,
                   accepted, discarded, export_fields, tui_fields>>

\* lines 446-464: no channel; an Error action is sent and the thread returns.
WorkerOpenFail(t, err) ==
    /\ threads[t].pc = "open"
    /\ chan' = try_send(chan, ErrorAction(err))
    /\ SetPc(t, "failed")
    /\ UNCHANGED <<fields, histories, clock, toggles, ui_pc, handle, accepted,
                   discarded, export_fields, tui_fields>>

\* lines 467-472: the head of the loop.
WorkerCheckStop(t) ==
    /\ threads[t].pc = "check"
    /\ threads' = [threads EXCEPT
           ![t].pc = IF dump_stop THEN "done" ELSE "recv",
           ![t].since_stop =
               IF ~dump_stop /\ @ > 0 /\ @ <= MaxReadsCounted THEN @ + 1 ELSE @]
    /\ UNCHANGED <<fields, histories, chan, clock, toggles, ui_pc, handle,
                   accepted, discarded, export_fields, tui_fields>>

\* A variant that breaks C22: a read that fails ends the thread.
WorkerRecvNothingExits(t) ==
    /\ threads[t].pc = "recv"
    /\ SetPc(t, "done")
    /\ UNCHANGED <<fields, histories, chan, clock, toggles, ui_pc, handle,
                   accepted, discarded, export_fields, tui_fields>>

\* lines 481-560: a read that times out or fails, or a frame no dissector
\* turns into a record.
WorkerRecvNothing(t) ==
    /\ threads[t].pc = "recv"
    /\ SetPc(t, "check")
    /\ UNCHANGED <<fields, histories, chan, clock, toggles, ui_pc, handle,
                   accepted, discarded, export_fields, tui_fields>>

\* A frame dissected into a TCP, UDP, ICMP or ICMPv6 record, sent with
\* try_send (handle_udp_packet, lines 129-162, and its siblings).
WorkerRecvPacket(t, kind) ==
    /\ threads[t].pc = "recv"
    /\ clock < MaxRecords
    /\ clock' = clock + 1
    /\ UNCHANGED toggles
    /\ chan' = try_send(chan, PacketDumpAction(clock + 1, kind, kind))
    /\ SetPc(t, "check")
    /\ UNCHANGED <<fields, histories, ui_pc, handle, accepted, discarded, export_fields, tui_fields>>

\* handle_arp_packet, lines 371-378: the ArpRecieve notification goes first.
WorkerRecvArp(t) ==
    /\ threads[t].pc = "recv"
    /\ clock < MaxRecords
    /\ chan' = try_send(chan, ArpRecieveAction)
    /\ SetPc(t, "arp")
    /\ UNCHANGED <<fields, histories, clock, toggles, ui_pc, handle, accepted,
                   discarded, export_fields, tui_fields>>

\* A variant that breaks C23: the notification is sent without the record.
WorkerSendArpSkipped(t) ==
    /\ threads[t].pc = "arp"
    /\ SetPc(t, "check")
    /\ UNCHANGED <<fields, histories, chan, clock, toggles, ui_pc, handle,
                   accepted, discarded, export_fields, tui_fields>>

\* handle_arp_packet, lines 380-402: then the Arp record.
WorkerSendArp(t) ==
    /\ threads[t].pc = "arp"
    /\ clock' = clock + 1
    /\ UNCHANGED toggles
    /\ chan' = try_send(chan, PacketDumpAction(clock + 1, "Arp", "Arp"))
    /\ SetPc(t, "check")
    /\ UNCHANGED <<fields, histories, ui_pc, handle, accepted, discarded, export_fields, tui_fields>>

\* t_logic, lines 481-557: a packet that is not ARP is read and dissected;
\* its handler sends at most one message.  (The two sends of an ARP frame
\* are WorkerRecvArp and WorkerSendArp.)
WorkerRecvFrame(t, f) ==
    LET msgs == OnPacket(threads[t].iface, f, clock + 1)
    IN  /\ threads[t].pc = "recv"
        /\ Len(msgs) <= 1
        /\ IF msgs = <<>>
           THEN UNCHANGED <<chan, clock>>
           ELSE /\ clock < MaxRecords
                /\ clock' = clock + 1
                /\ chan' = try_send(chan, msgs[1])
        /\ SetPc(t, "check")
        /\ UNCHANGED <<fields, histories, toggles, ui_pc, handle, accepted,
                       discarded, export_fields, tui_fields>>

\* The steps of a worker when no frame of interest arrives.
WorkerIdle(t) ==
    \/ WorkerOpenOk(t)
    \/ \E err \in OpenErrors : WorkerOpenFail(t, err)
    \/ WorkerCheckStop(t)
    \/ WorkerRecvNothing(t)

\* The steps that dissect a frame into a record.
WorkerDissect(t) ==
    \/ \E kind \in PacketsInfoTypesEnum \ {"Arp"} : WorkerRecvPacket(t, kind)
    \/ WorkerRecvArp(t)
    \/ WorkerSendArp(t)

(***************************************************************************)
(* Spec: the lifecycle of the worker.  Every lifecycle event (handler      *)
(* registration, tab change, interface selection, pause/resume, tick,      *)
(* shutdown) in any order, against workers whose reads time out.           *)
(***************************************************************************)
Next ==
    \/ RegisterActionHandler
    \/ \E tab \in TabsEnum : UpdateTabChange(tab)
    \/ \E i \in Interfaces : UpdateActiveInterface(i)
    \/ UpdateDumpToggle
    \/ UpdateTick
    \/ UpdateFromChannel
    \/ RestartWaitEnd
    \/ Shutdown
    \/ ShutdownWaitEnd
    \/ \E t \in WorkerIds : WorkerIdle(t)

Spec == Init /\ [][Next]_vars

(***************************************************************************)
(* SpecHistory: the histories.  One interface is selected once, capture is *)
(* paused and resumed (a bounded number of key presses), and the workers   *)
(* dissect frames of every kind.                                           *)
(***************************************************************************)
NextHistory ==
    \/ RegisterActionHandler
    \/ UpdateTabChange("Packets")
    \/ (active_interface = NoInterface /\ UpdateActiveInterface("A"))
    \/ UpdateDumpToggleCounted
    \/ UpdateFromChannel
    \/ \E t \in WorkerIds : WorkerIdle(t)
    \/ \E t \in WorkerIds : WorkerDissect(t)

SpecHistory == Init /\ [][NextHistory]_vars

(***************************************************************************)
(* SpecRestart: scenario S6.  The handler is registered, interface A is    *)
(* selected, then interface B, once each; besides that only tab changes,   *)
(* ticks and the workers' messages reach update; the workers' reads time   *)
(* out.                                                                    *)
(* Fairness: the UI loop keeps calling update (Tick at 4 Hz), the bounded  *)
(* wait of restart_loop ends, and each spawned thread keeps running (its   *)
(* reads return within the read timeout).                                  *)
(***************************************************************************)
NextRestart ==
    \/ RegisterActionHandler
    \/ (action_tx /\ active_interface = NoInterface /\ UpdateActiveInterface("A"))
    \/ (active_interface = "A" /\ UpdateActiveInterface("B"))
    \/ \E tab \in TabsEnum : UpdateTabChange(tab)
    \/ UpdateTick
    \/ UpdateFromChannel
    \/ RestartWaitEnd
    \/ \E t \in WorkerIds : WorkerIdle(t)

SpecRestart ==
    /\ Init
    /\ [][NextRestart]_vars
    /\ WF_vars(UpdateTick)
    /\ WF_vars(UpdateFromChannel)
    /\ WF_vars(RestartWaitEnd)
    /\ \A t \in WorkerIds : WF_vars(WorkerIdle(t))

(***************************************************************************)
(* SpecTable: the packet table.  The handler is registered, tabs change,   *)
(* records of every kind reach update, and the arrow keys move the         *)
(* selection (Up, Down) and the packet type (Left, Right).                 *)
(***************************************************************************)
NextTable ==
    \/ RegisterActionHandler
    \/ \E tab \in TabsEnum : UpdateTabChange(tab)
    \/ \E kind \in PacketsInfoTypesEnum : UpdateRecord(kind, kind)
    \/ UpdateDown
    \/ UpdateUp
    \/ UpdateLeft
    \/ UpdateRight

SpecTable == Init /\ [][NextTable]_vars

(***************************************************************************)
(* SpecFilter: the filter.  The handler is registered, the Packets tab is  *)
(* opened, the mode changes, keys are typed into the input line, Enter     *)
(* sets the filter, Clear resets it, and records with different raw_str    *)
(* reach update.                                                           *)
(***************************************************************************)
NextFilter ==
    \/ RegisterActionHandler
    \/ UpdateTabChange("Packets")
    \/ \E m \in Modes : UpdateModeChange(m)
    \/ \E key \in Chars \cup {"Enter", "Backspace"} : HandleKeyEvents(key)
    \/ UpdateClear
    \/ \E p \in FilterPackets : UpdateRecord(p, p.kind)
    \/ UpdateFromChannel

SpecFilter == Init /\ [][NextFilter]_vars

(***************************************************************************)
(* SpecDissect: dissection.  The handler is registered, the Packets tab is *)
(* opened, one interface is selected (the Ethernet one or the              *)
(* point-to-point one), and its worker reads the frames of Frames.         *)
(***************************************************************************)
NextDissect ==
    \/ RegisterActionHandler
    \/ UpdateTabChange("Packets")
    \/ \E i \in Interfaces :
          active_interface = NoInterface /\ UpdateActiveInterface(i)
    \/ UpdateFromChannel
    \/ \E t \in WorkerIds : WorkerIdle(t)
    \/ \E t \in WorkerIds : \E f \in Frames : WorkerRecvFrame(t, f)

SpecDissect == Init /\ [][NextDissect]_vars

(***************************************************************************)
(* SpecExport: the export sink beside the packet view.  Records reach      *)
(* update, tabs change, and the Export component receives Export and       *)
(* ExportData actions whose writes succeed or fail.                        *)
(***************************************************************************)
NextExport ==
    \/ RegisterActionHandler
    \/ \E tab \in TabsEnum : UpdateTabChange(tab)
    \/ \E kind \in PacketsInfoTypesEnum : UpdateRecord(kind, kind)
    \/ ExportUpdate([type |-> "Export"], {})
    \/ \E failing \in WriteFailures :
          ExportUpdate([type |-> "ExportData"], failing)

SpecExport == Init /\ [][NextExport]_vars

(***************************************************************************)
(* SpecShutdown: the end of the component.  The handler is registered, an  *)
(* interface is selected once, tabs change, and shutdown is called while   *)
(* the worker is anywhere in t_logic.                                      *)
(* Fairness: only the bounded wait of shutdown is fair (start.elapsed()    *)
(* passes the timeout); nothing is assumed of the worker, which may stay   *)
(* in a read for ever.                                                     *)
(***************************************************************************)
NextShutdown ==
    \/ RegisterActionHandler
    \/ \E tab \in TabsEnum : UpdateTabChange(tab)
    \/ \E i \in Interfaces :
          active_interface = NoInterface /\ UpdateActiveInterface(i)
    \/ Shutdown
    \/ ShutdownWaitEnd
    \/ \E t \in WorkerIds : WorkerIdle(t)

SpecShutdown ==
    /\ Init
    /\ [][NextShutdown]_vars
    /\ WF_vars(ShutdownWaitEnd)

(***************************************************************************)
(* SpecAppendOnly: everything else that reaches update while the histories *)
(* hold records: tab changes, interface selection and change, pause and    *)
(* resume, Clear, and the packet-type keys, between records of two kinds.  *)
(* No worker runs: the spawned threads stay at their first step.           *)
(***************************************************************************)
NextAppendOnly ==
    \/ RegisterActionHandler
    \/ \E tab \in TabsEnum : UpdateTabChange(tab)
    \/ \E i \in Interfaces : UpdateActiveInterface(i)
    \/ RestartWaitEnd
    \/ UpdateDumpToggle
    \/ UpdateClear
    \/ UpdateLeft
    \/ UpdateRight
    \/ \E kind \in {"Tcp", "Arp"} : UpdateRecord(kind, kind)

SpecAppendOnly == Init /\ [][NextAppendOnly]_vars

(***************************************************************************)
(* SpecInterface: interface selection around a pause.  The handler is      *)
(* registered, the Packets tab is opened, interface A is selected and      *)
(* later B, capture is paused and                                          *)
(* resumed (a bounded number of key presses), ticks reach update, and the  *)
(* workers' reads time out.                                                *)
(***************************************************************************)
NextInterface ==
    \/ RegisterActionHandler
    \/ UpdateTabChange("Packets")
    \/ (active_interface = NoInterface /\ UpdateActiveInterface("A"))
    \/ (active_interface = "A" /\ UpdateActiveInterface("B"))
    \/ UpdateDumpToggleCounted
    \/ UpdateTick
    \/ UpdateFromChannel
    \/ RestartWaitEnd
    \/ \E t \in WorkerIds : WorkerIdle(t)

SpecInterface == Init /\ [][NextInterface]_vars

(***************************************************************************)
(* SpecTabs: the filter scenario with every tab.  As SpecFilter, and the   *)
(* user moves between the Discovery, Packets and Ports tabs, so that keys  *)
(* and actions reach the component while another tab is shown.             *)
(***************************************************************************)
NextTabs ==
    \/ RegisterActionHandler
    \/ \E tab \in TabsEnum : UpdateTabChange(tab)
    \/ \E m \in Modes : UpdateModeChange(m)
    \/ \E key \in Chars \cup {"Enter", "Backspace"} : HandleKeyEvents(key)
    \/ UpdateClear
    \/ \E p \in FilterPackets : UpdateRecord(p, p.kind)
    \/ UpdateFromChannel

SpecTabs == Init /\ [][NextTabs]_vars

(***************************************************************************)
(* SpecGate: the tab gate of update.  The user moves between the tabs      *)
(* while the fields the Packets-tab actions write are given values:        *)
(* records are in the histories, a filter is typed, capture is paused and  *)
(* resumed, and the interface is changed from A to B.  No worker runs (the *)
(* spawned threads stay at their first step) and the application does not  *)
(* drain the channel.                                                      *)
(***************************************************************************)
NextGate ==
    \/ RegisterActionHandler
    \/ \E tab \in TabsEnum : UpdateTabChange(tab)
    \/ (active_interface = NoInterface /\ UpdateActiveInterface("A"))
    \/ (active_interface = "A" /\ UpdateActiveInterface("B"))
    \/ RestartWaitEnd
    \/ UpdateDumpToggleCounted
    \/ \E m \in Modes : UpdateModeChange(m)
    \/ \E key \in {"a", "Enter"} : HandleKeyEvents(key)
    \/ \E p \in {q \in FilterPackets : q.kind = "Udp"} :
          UpdateRecord(p, p.kind)

SpecGate == Init /\ [][NextGate]_vars

(***************************************************************************)
(* Tui: the calls of its owner and the steps of the event tasks.  enter    *)
(* calls start (line 189) and exit calls stop (line 194); the terminal     *)
(* modes they switch are not modelled.                                     *)
(***************************************************************************)
PacketDumpVars == <<fields, histories, threads, chan, clock, toggles, ui_pc,
                    handle, accepted, discarded, export_fields>>

\* (start without its call of cancel: a variant that breaks C39.)
StartWithoutCancel ==
    /\ tui_pc = "idle"
    /\ \E id \in TaskIds :
          /\ event_tasks[id].pc = "unspawned"
          /\ \A j \in TaskIds : j < id => event_tasks[j].pc # "unspawned"
          /\ cancellation_token' = id
          /\ task' = id
          /\ event_tasks' = [event_tasks EXCEPT ![id].pc = "init"]
    /\ UNCHANGED <<cancelled, event_queue, counter, tui_pc, PacketDumpVars>>

\* start, lines 93-158: cancel the current token, make a new one, spawn the
\* task with a clone of it and keep its JoinHandle.
Start ==
    /\ tui_pc = "idle"
    /\ \E id \in TaskIds :
          /\ event_tasks[id].pc = "unspawned"
          /\ \A j \in TaskIds : j < id => event_tasks[j].pc # "unspawned"
          /\ cancelled' = [cancelled EXCEPT ![cancellation_token] = TRUE]
          /\ cancellation_token' = id
          /\ task' = id
          /\ event_tasks' = [event_tasks EXCEPT ![id].pc = "init"]
    /\ UNCHANGED <<event_queue, counter, tui_pc, PacketDumpVars>>

\* cancel, lines 209-211.
Cancel ==
    /\ tui_pc = "idle"
    /\ cancelled' = [cancelled EXCEPT ![cancellation_token] = TRUE]
    /\ UNCHANGED <<task, cancellation_token, event_tasks, event_queue, counter,
                   tui_pc, PacketDumpVars>>

\* stop, lines 161-162: cancel, counter = 0, then the loop.
StopBegin ==
    /\ tui_pc = "idle"
    /\ cancelled' = [cancelled EXCEPT ![cancellation_token] = TRUE]
    /\ counter' = 0
    /\ tui_pc' = "stop"
    /\ UNCHANGED <<task, cancellation_token, event_tasks, event_queue,
                   PacketDumpVars>>

\* (One iteration of the loop of stop that forgets counter += 1: a variant
\* that breaks C38.)
stop_poll_not_counting(c) ==
    [counter |-> c, abort |-> c > AbortAfter, break |-> c > GiveUpAfter]

\* One iteration of the loop of stop after the task was found unfinished,
\* lines 164-175: the counter, whether abort is called, whether it breaks.
stop_poll(c) ==
    [counter |-> c + 1, abort |-> c + 1 > AbortAfter,
     break |-> c + 1 > GiveUpAfter]

\* stop, lines 163-177: the test of the loop and one iteration, or Ok(()).
\* counter is a local of stop: it is 0 whenever no call of stop is running.
StopPoll ==
    /\ tui_pc = "stop"
    /\ IF task_is_finished(task)
       THEN /\ tui_pc' = "idle"
            /\ counter' = 0
            /\ UNCHANGED event_tasks
       ELSE LET r == stop_poll(counter)
            IN  /\ counter' = IF r.break THEN 0 ELSE r.counter
                /\ event_tasks' = IF r.abort
                                  THEN [event_tasks EXCEPT ![task].aborted = TRUE]
                                  ELSE event_tasks
                /\ tui_pc' = IF r.break THEN "idle" ELSE "stop"
    /\ UNCHANGED <<task, cancellation_token, cancelled, event_queue,
                   PacketDumpVars>>

\* next, lines 225-227: the owner receives the oldest event.
TuiNext ==
    /\ tui_pc = "idle"
    /\ event_queue # <<>>
    /\ event_queue' = Tail(event_queue)
    /\ UNCHANGED <<task, cancellation_token, cancelled, event_tasks, counter,
                   tui_pc, PacketDumpVars>>

\* The task of Tui::new, line 67: async {}.
TaskEmpty ==
    /\ event_tasks[0].pc = "empty"
    /\ event_tasks' = [event_tasks EXCEPT ![0].pc = "done"]
    /\ UNCHANGED <<task, cancellation_token, cancelled, event_queue, counter,
                   tui_pc, PacketDumpVars>>

\* Lines 101-107: the task sends Init, and returns if that fails.
TaskInit(t) ==
    /\ event_tasks[t].pc = "init"
    /\ ~event_tasks[t].aborted
    /\ IF event_try_send(event_queue, "Init") = event_queue
       THEN /\ event_tasks' = [event_tasks EXCEPT ![t].pc = "done"]
            /\ UNCHANGED event_queue
       ELSE /\ event_tasks' = [event_tasks EXCEPT ![t].pc = "loop"]
            /\ event_queue' = event_try_send(event_queue, "Init")
    /\ UNCHANGED <<task, cancellation_token, cancelled, counter, tui_pc,
                   PacketDumpVars>>

\* select!, lines 113-115: the token was cancelled, the task breaks.
TaskCancelled(t) ==
    /\ event_tasks[t].pc = "loop"
    /\ ~event_tasks[t].aborted
    /\ cancelled[t]
    /\ event_tasks' = [event_tasks EXCEPT ![t].pc = "done"]
    /\ UNCHANGED <<task, cancellation_token, cancelled, event_queue, counter,
                   tui_pc, PacketDumpVars>>

\* select!, lines 116-148: the reader returned evt.
TaskCrossterm(t, evt) ==
    /\ event_tasks[t].pc = "loop"
    /\ ~event_tasks[t].aborted
    /\ event_queue' = on_crossterm_event(event_queue, evt)
    /\ UNCHANGED <<task, cancellation_token, cancelled, event_tasks, counter,
                   tui_pc, PacketDumpVars>>

\* select!, lines 149-151: the tick interval elapsed.
TaskTick(t) ==
    /\ event_tasks[t].pc = "loop"
    /\ ~event_tasks[t].aborted
    /\ event_queue' = event_try_send(event_queue, "Tick")
    /\ UNCHANGED <<task, cancellation_token, cancelled, event_tasks, counter,
                   tui_pc, PacketDumpVars>>

\* select!, lines 152-154: the render interval elapsed.
TaskRender(t) ==
    /\ event_tasks[t].pc = "loop"
    /\ ~event_tasks[t].aborted
    /\ event_queue' = event_try_send(event_queue, "Render")
    /\ UNCHANGED <<task, cancellation_token, cancelled, event_tasks, counter,
                   tui_pc, PacketDumpVars>>

\* JoinHandle::abort, line 167: the runtime drops an aborted task the next
\* time it would poll it.
TaskAborted(t) ==
    /\ event_tasks[t].pc \in {"empty", "init", "loop"}
    /\ event_tasks[t].aborted
    /\ event_tasks' = [event_tasks EXCEPT ![t].pc = "done"]
    /\ UNCHANGED <<task, cancellation_token, cancelled, event_queue, counter,
                   tui_pc, PacketDumpVars>>

(***************************************************************************)
(* SpecTuiTasks: the owner starts and stops while the tasks run; the only  *)
(* event is Init and nothing is received.  The runtime keeps polling every *)
(* task that can make a step, and a call of stop keeps running.            *)
(***************************************************************************)
NextTuiTasks ==
    \/ Start
    \/ StopBegin
    \/ StopPoll
    \/ TaskEmpty
    \/ \E t \in TaskIds : TaskInit(t)
    \/ \E t \in TaskIds : TaskCancelled(t)
    \/ \E t \in AllTaskIds : TaskAborted(t)

SpecTuiTasks ==
    /\ Init
    /\ [][NextTuiTasks]_vars
    /\ WF_vars(StopPoll)
    /\ \A t \in TaskIds : WF_vars(TaskInit(t))
    /\ \A t \in TaskIds : WF_vars(TaskCancelled(t))
    /\ \A t \in AllTaskIds : WF_vars(TaskAborted(t))

(***************************************************************************)
(* SpecTuiStop: the same with Tick events, so that a later task finds the  *)
(* channel full.  Only a call of stop is assumed to keep running: the      *)
(* tasks may never be scheduled.                                           *)
(***************************************************************************)
SpecTuiStop ==
    /\ Init
    /\ [][NextTuiTasks \/ \E t \in TaskIds : TaskTick(t)]_vars
    /\ WF_vars(StopPoll)

(***************************************************************************)
(* SpecTuiEvents: every event the task can produce, with an owner that     *)
(* starts, cancels and receives.                                           *)
(***************************************************************************)
NextTuiEvents ==
    \/ Start
    \/ Cancel
    \/ TuiNext
    \/ \E t \in TaskIds : TaskInit(t)
    \/ \E t \in TaskIds : TaskCancelled(t)
    \/ \E t \in TaskIds, evt \in CrosstermEvents : TaskCrossterm(t, evt)
    \/ \E t \in TaskIds : TaskTick(t)
    \/ \E t \in TaskIds : TaskRender(t)

SpecTuiEvents == Init /\ [][NextTuiEvents]_vars

(***************************************************************************)
(* Properties.                                                             *)
(***************************************************************************)
AliveWorkers == {t \in WorkerIds : Alive(threads[t])}
\* This step spawns thread t.
SpawnedNow(t) == threads[t].pc = "idle" /\ threads'[t].pc = "open"
\* This step is update receiving the PacketDump at the head of the channel.
ProcessedPacketDump ==
    /\ chan # <<>>
    /\ Head(chan).type = "PacketDump"
    /\ chan' = Tail(chan)

\* The history of ptype in the current state.
Deque(ptype) == get_array_by_packet_type(World, ptype)

\* C1: at any time at most one capture worker that was spawned and has not
\* terminated exists.
C1_AtMostOneWorker == Cardinality(AliveWorkers) <= 1

\* C2: a PacketDump action that update processes while dump_paused is true
\* leaves all six histories unchanged, whenever the record was sent.
C2_PausedRecordDiscarded ==
    [][(ProcessedPacketDump /\ dump_paused) => UNCHANGED histories]_vars

\* C2 witness: update has discarded a record while paused, with records
\* already stored in the histories, and capture is still paused.
C2_Witness ==
    /\ dump_paused
    /\ discarded > 0
    /\ all_packets.deque # <<>>

\* C3: in every reachable state each of the six histories holds at most
\* MAX_PACKET_HISTORY entries.
C3_HistoryBound ==
    \A ptype \in PacketTypes :
        Len(Deque(ptype)) <= MAX_PACKET_HISTORY

\* C3 witness: a full history after more pushes than its capacity.
C3_Witness ==
    /\ Len(all_packets.deque) = MAX_PACKET_HISTORY
    /\ Len(accepted) > MAX_PACKET_HISTORY

\* The entries pushed into the history of ptype so far, in push order.
PushedInto(ptype) ==
    LET into(a) == ptype = "All" \/ a.packet_type = ptype
        sel == SelectSeq(accepted, into)
    IN  [i \in DOMAIN sel |-> Entry(sel[i])]
LastN(s, n) == IF Len(s) <= n THEN s ELSE SubSeq(s, Len(s) - n + 1, Len(s))

\* C4: after N > capacity pushes into one history its length equals the
\* capacity and its contents are the last `capacity` pushed entries in push
\* order (and after N <= capacity pushes, all N entries in push order).
C4_LastCapacityPushes ==
    \A ptype \in PacketTypes :
        LET deque == Deque(ptype)
            pushed == PushedInto(ptype)
        IN  /\ deque = LastN(pushed, MAX_PACKET_HISTORY)
            /\ Len(pushed) > MAX_PACKET_HISTORY => Len(deque) = MAX_PACKET_HISTORY

\* C4 witness: more than `capacity` pushes into one protocol bucket.
C4_Witness ==
    \E ptype \in PacketsInfoTypesEnum :
        /\ Len(PushedInto(ptype)) > MAX_PACKET_HISTORY
        /\ Len(Deque(ptype)) = MAX_PACKET_HISTORY

\* after is before with e appended at the tail (the head dropped when before
\* was full).
AppendedAtTail(before, after, e) ==
    /\ after # <<>>
    /\ after[Len(after)] = e
    /\ SubSeq(after, 1, Len(after) - 1) =
           IF Len(before) < MAX_PACKET_HISTORY THEN before ELSE Tail(before)

\* C5: when dump_paused is false, update(PacketDump(time, rec, kind)) with
\* kind one of Arp, Tcp, Udp, Icmp, Icmp6 appends (time, rec) at the tail of
\* the bucket of kind and at the tail of All, and changes no other bucket.
C5_AcceptedRecordAppended ==
    [][IF /\ ProcessedPacketDump
          /\ ~dump_paused
          /\ Head(chan).packet_type \in PacketsInfoTypesEnum
       THEN \E kind \in PacketsInfoTypesEnum :
                /\ kind = Head(chan).packet_type
                /\ AppendedAtTail(Deque(kind), Deque(kind)', Entry(Head(chan)))
                /\ AppendedAtTail(Deque("All"), Deque("All")', Entry(Head(chan)))
                /\ \A other \in PacketsInfoTypesEnum \ {kind} :
                       Deque(other)' = Deque(other)
       ELSE TRUE]_vars

\* C5 witness: update has accepted records of two kinds, the last one into a
\* bucket that was already full.
C5_Witness ==
    /\ ~dump_paused
    /\ accepted # <<>>
    /\ Len(PushedInto(accepted[Len(accepted)].packet_type)) > MAX_PACKET_HISTORY
    /\ \E ptype \in PacketsInfoTypesEnum \ {accepted[Len(accepted)].packet_type} :
           Deque(ptype) # <<>>

Range(s) == {s[i] : i \in DOMAIN s}
BagOfSeq(s) == [x \in Range(s) |-> Cardinality({i \in DOMAIN s : s[i] = x})]

\* C6: after accepted records of total length <= capacity, the multiset of
\* entries of All equals the disjoint union of the entries of the five
\* protocol buckets.
C6_AllIsUnionOfBuckets ==
    Len(accepted) <= MAX_PACKET_HISTORY =>
        BagOfSeq(all_packets.deque) =
            BagOfSeq(arp_packets.deque) (+) BagOfSeq(tcp_packets.deque)
            (+) BagOfSeq(udp_packets.deque) (+) BagOfSeq(icmp_packets.deque)
            (+) BagOfSeq(icmp6_packets.deque)

\* C6 witness: `capacity` records accepted, into more than one bucket.
C6_Witness ==
    /\ Len(accepted) = MAX_PACKET_HISTORY
    /\ Cardinality({ptype \in PacketsInfoTypesEnum :
                        Deque(ptype) # <<>>}) > 1

\* C7: when DumpToggle switches dump_paused from false to true while a
\* worker runs, the stop flag is set (so that the worker terminates).
C7_PauseSetsStop ==
    [][(~dump_paused /\ dump_paused' /\ loop_thread # None
            /\ Alive(threads[loop_thread]))
        => dump_stop']_vars

\* C8: the stop flag is false at the moment any worker is spawned.
C8_StopClearAtSpawn ==
    \A t \in WorkerIds : threads[t].pc # "idle" => ~threads[t].stop_at_spawn

\* C9: the deferred start after an interface change (changed_interface set)
\* spawns the new worker only when no earlier worker is still running.
C9_DeferredStartAfterExit ==
    [][\A t \in WorkerIds :
           (changed_interface /\ SpawnedNow(t)) => AliveWorkers = {}]_vars

\* Exactly one worker runs, and it captures on interface B.
OneWorkerOnB ==
    /\ Cardinality(AliveWorkers) = 1
    /\ \A t \in AliveWorkers : threads[t].iface = "B"
\* The worker spawned for B could not create its capture channel.
OpenFailedOnB ==
    \E t \in WorkerIds : threads[t].iface = "B" /\ threads[t].pc = "failed"

\* update(ActiveInterface(B)) has just stopped a worker that was in its read
\* loop on A, and waits for it.
RestartFromRunningA ==
    /\ active_interface = "B"
    /\ ui_pc = "restart_wait"
    /\ threads[handle].iface = "A"
    /\ threads[handle].pc \in {"check", "recv"}

\* C10, as claimed: starting with a worker running on A, after
\* update(ActiveInterface(B)) the system eventually reaches and stays in a
\* state with exactly one running worker, which captures on B.
C10_EventuallyOneWorkerOnB ==
    RestartFromRunningA ~> []OneWorkerOnB

\* C10, amended: ... or the worker spawned for B could not create its
\* capture channel (it has sent Error and exited) and no worker is running.
C10_OneWorkerOnBUnlessOpenFails ==
    RestartFromRunningA ~>
        [](OneWorkerOnB \/ (OpenFailedOnB /\ AliveWorkers = {}))

\* C11: after true is stored to the stop flag, a worker in its read loop at
\* the store terminates after at most two further read attempts: it never begins a
\* third read.
C11_StopWithinTwoReads ==
    \A t \in WorkerIds : Alive(threads[t]) => threads[t].since_stop <= 1 + 2

\* PacketDump messages waiting in the channel.
InFlight == {i \in 1..Len(chan) : chan[i].type = "PacketDump"}

\* C12: a worker step that dissects a record (the clock advances) sends it
\* with try_send: the record is queued at the tail if the channel has room;
\* if the channel is full the channel is unchanged; either way the worker is
\* back at the head of its loop after the step.
C12_FullChannelDropsRecord ==
    [][clock' = clock + 1 =>
          /\ \E t \in WorkerIds :
                 /\ threads[t].pc \in {"recv", "arp"}
                 /\ threads'[t].pc = "check"
          /\ IF Len(chan) = ChanCap
             THEN chan' = chan
             ELSE /\ Len(chan') = Len(chan) + 1
                  /\ SubSeq(chan', 1, Len(chan)) = chan
                  /\ chan'[Len(chan')].type = "PacketDump"
                  /\ chan'[Len(chan')].time = clock']_vars

\* C12 witness: the channel is full and a dissected record is neither in a
\* history, nor discarded by a paused update, nor in the channel: it was
\* dropped at the send.
C12_Witness ==
    /\ Len(chan) = ChanCap
    /\ clock > Len(accepted) + discarded + Cardinality(InFlight)

\* The time stamps of a history's entries, in history order.  A record's
\* stamp is the clock at its dissection, so the stamps give the dissection
\* order.
Times(ptype) == [i \in 1..Len(Deque(ptype)) |-> Deque(ptype)[i][1]]

\* C13: in every history the entries are in dissection order: the stamps
\* increase strictly from head to tail (records may be missing, none is out
\* of order or repeated).
C13_HistoryInDissectionOrder ==
    \A ptype \in PacketTypes :
        \A i, j \in 1..Len(Deque(ptype)) :
            i < j => Times(ptype)[i] < Times(ptype)[j]

\* C13 witness: All holds two records between which the worker dissected a
\* record that is not in the history.
C13_Witness ==
    /\ Len(Deque("All")) >= 2
    /\ Times("All")[2] > Times("All")[1] + 1

\* C14: next followed by previous returns every packet type that is not at
\* a boundary; at the boundaries both saturate.  Stated for every value of
\* the enum and for the packet type the table is showing.
C14_NextPreviousRoundTrip ==
    /\ \A p \in PacketTypes \ {"All", "Icmp6"} : previous(next(p)) = p
    /\ packet_type \notin {"All", "Icmp6"} =>
           previous(next(packet_type)) = packet_type
    /\ next("Icmp6") = "Icmp6"
    /\ previous("All") = "All"

\* C14 witness: Right presses have taken the table to the last packet type,
\* where next saturates.
C14_Witness ==
    packet_type = "Icmp6" /\ next(packet_type) = packet_type

\* The packet type that follows / precedes p in declaration order, or none.
Following(p) ==
    {q \in PacketTypes : \E i \in 1..(Len(PacketTypeEnum) - 1) :
                             PacketTypeEnum[i] = p /\ PacketTypeEnum[i + 1] = q}
Preceding(p) == {q \in PacketTypes : p \in Following(q)}

\* The component after update(action) is called in the current state.
After(action) == update(World, action)
\* update can be called: the UI thread is not inside a wait.
InPacketsTab == ui_pc = "idle" /\ active_tab = "Packets"

\* C15, as claimed: in the Packets tab Right moves to the following packet
\* type and wraps from Icmp6 to All; Left moves to the preceding one and
\* wraps from All to Icmp6.
C15_LeftRightCyclic ==
    InPacketsTab =>
        /\ After([type |-> "Right"]).packet_type \in
               (IF packet_type = "Icmp6" THEN {"All"}
                ELSE Following(packet_type))
        /\ After([type |-> "Left"]).packet_type \in
               (IF packet_type = "All" THEN {"Icmp6"}
                ELSE Preceding(packet_type))

\* C15, amended: Right moves to the following packet type and stays at
\* Icmp6; Left moves to the preceding one and stays at All.
C15_LeftRightSaturating ==
    InPacketsTab =>
        /\ After([type |-> "Right"]).packet_type \in
               (IF packet_type = "Icmp6" THEN {"Icmp6"}
                ELSE Following(packet_type))
        /\ After([type |-> "Left"]).packet_type \in
               (IF packet_type = "All" THEN {"All"}
                ELSE Preceding(packet_type))

\* C15 witness: the Packets tab shows the last packet type, five Right
\* presses away from the first.
C15_Witness ==
    active_tab = "Packets" /\ Repr(packet_type) = Len(PacketTypeEnum) - 1

\* Length of the bucket the table shows.
CurrentLen == Len(Deque(packet_type))

\* C16, as claimed: the selection is None or an index below the length of
\* the current bucket, also when that bucket is empty.
C16_SelectionInBucket ==
    \/ table_state = NoneSelected
    \/ (0 <= table_state /\ table_state < CurrentLen)

\* C16, amended: the selection is always Some(i); i is below the length of
\* the current bucket when the bucket has entries, and 0 when it is empty.
C16_SelectionInBucketOrZero ==
    /\ table_state # NoneSelected
    /\ 0 <= table_state
    /\ table_state < (IF CurrentLen = 0 THEN 1 ELSE CurrentLen)

\* C16 witness: Up or Down has moved the selection off the first row of a
\* bucket with entries.
C16_Witness ==
    table_state > 0 /\ CurrentLen > 0

\* C17: in the Packets tab Down moves the selection from i to i+1 and from
\* the last row to 0; Up moves it from i to i-1 and from 0 to the last row;
\* on an empty bucket both leave it at 0.
C17_UpDownWrap ==
    InPacketsTab =>
        /\ After([type |-> "Down"]).table_state =
               (IF CurrentLen = 0 THEN 0 ELSE (table_state + 1) % CurrentLen)
        /\ After([type |-> "Up"]).table_state =
               (IF CurrentLen = 0 THEN 0
                ELSE (table_state + CurrentLen - 1) % CurrentLen)

\* C17 witness: the Packets tab shows a bucket with several rows and the
\* selection is on its last row.
C17_Witness ==
    /\ active_tab = "Packets"
    /\ CurrentLen >= 2
    /\ table_state = CurrentLen - 1

\* C18: in the Packets tab every Left and every Right sets the selection to
\* row 0, also when the packet type is at a boundary and stays.
C18_LeftRightSelectFirst ==
    InPacketsTab =>
        /\ After([type |-> "Left"]).table_state = 0
        /\ After([type |-> "Right"]).table_state = 0

\* C18 witness: at a boundary packet type, with a row other than the first
\* selected: Right leaves the packet type and moves the selection to row 0.
C18_Witness ==
    /\ InPacketsTab
    /\ packet_type = "Icmp6"
    /\ table_state > 0
    /\ After([type |-> "Right"]).packet_type = packet_type

\* f is a substring of raw: raw is some prefix, then f, then some suffix.
IsSubstring(f, raw) ==
    \E i, j \in 0..Len(raw) : i <= j /\ SubSeq(raw, i + 1, j) = f
\* The rows the table shows for a bucket at render time.
Rows(ptype) == get_table_rows_by_packet_type(World, ptype)
\* The positions of a bucket whose record has filter_str in its raw_str.
Matching(ptype) ==
    {i \in 1..Len(Deque(ptype)) :
        IsSubstring(filter_str, Deque(ptype)[i][2].raw_str)}
\* The k-th smallest element of a set of positions.
Kth(S, k) == CHOOSE i \in S : Cardinality({j \in S : j <= i}) = k

\* C19: the rows of a bucket are exactly its records whose raw_str has
\* filter_str as a substring, in bucket order; with an empty filter_str they
\* are all the records of the bucket.
C19_RowsAreMatchingRecords ==
    \A ptype \in PacketTypes :
        /\ Len(Rows(ptype)) = Cardinality(Matching(ptype))
        /\ \A k \in 1..Len(Rows(ptype)) :
               Rows(ptype)[k] = Deque(ptype)[Kth(Matching(ptype), k)]
        /\ filter_str = <<>> => Rows(ptype) = Deque(ptype)

\* C19 witness: a filter is set, and the All bucket has a record that is
\* displayed and one that is not.
C19_Witness ==
    /\ filter_str # <<>>
    /\ Len(Rows("All")) > 0
    /\ Len(Rows("All")) < Len(Deque("All"))

\* C20: filtering a history twice with the same string gives what filtering
\* it once gives, and filtering with the empty string gives the history.
\* Stated for every bucket, with the current filter and with the string in
\* the input line.
C20_FilterIdempotent ==
    \A ptype \in PacketTypes :
        /\ \A f \in {filter_str, input} :
               filter_logs(filter_logs(Deque(ptype), f), f)
                   = filter_logs(Deque(ptype), f)
        /\ filter_logs(Deque(ptype), <<>>) = Deque(ptype)

\* C20 witness: the All bucket is full and the current filter keeps some of
\* its records and drops others.
C20_Witness ==
    /\ Len(Deque("All")) = MAX_PACKET_HISTORY
    /\ filter_logs(Deque("All"), filter_str) \notin {<<>>, Deque("All")}

\* What a try_send of msg leaves in the channel: the message at the tail
\* when there is room, the channel as it was when it is full.
Sent(msg) == IF Len(chan) < ChanCap THEN Append(chan, msg) ELSE chan

\* C21: a worker whose channel cannot be created (an error result or a
\* channel that is not Ethernet) sends one Error action with try_send (it
\* is queued when the channel has room), dissects nothing in that step,
\* and has returned: it never reaches the read loop and never moves again,
\* so it emits no PacketDump.  A worker leaves the opening step only to
\* the loop head or to this exit.
C21_OpenFailureSendsErrorAndExits ==
    [][\A t \in WorkerIds :
          /\ (threads[t].pc = "open" /\ threads'[t].pc # "open") =>
                \/ threads'[t].pc = "check" /\ chan' = chan
                \/ /\ threads'[t].pc = "failed"
                   /\ \E err \in OpenErrors : chan' = Sent(ErrorAction(err))
                   /\ clock' = clock
          /\ threads[t].pc = "failed" => threads'[t] = threads[t]]_vars

\* C21 witness: a worker has failed to open its channel and its Error
\* action is in the channel, while no record was ever dissected.
C21_Witness ==
    /\ \E t \in WorkerIds : threads[t].pc = "failed"
    /\ \E k \in 1..Len(chan) : chan[k].type = "Error"
    /\ clock = 0

\* C22: a read never ends the worker: from the read the worker goes back
\* to the head of the loop (or on to the second send of an ARP frame); a
\* read that yields no record leaves the channel as it was; and the worker
\* leaves the loop only at the head of the loop, with the stop flag set.
C22_ReadErrorKeepsLooping ==
    [][\A t \in WorkerIds :
          /\ threads[t].pc = "recv" =>
                threads'[t].pc \in {"recv", "check", "arp"}
          /\ (threads[t].pc = "recv" /\ threads'[t].pc = "check"
                  /\ clock' = clock) => chan' = chan
          /\ (InLoop(threads[t]) /\ ~InLoop(threads'[t])) =>
                /\ threads[t].pc = "check"
                /\ dump_stop
                /\ threads'[t].pc = "done"]_vars

\* C22 witness: a worker that began a read with the stop flag clear has
\* come back from it to the head of the loop, still running.
C22_Witness ==
    \E t \in WorkerIds :
        threads[t].pc = "check" /\ threads[t].since_stop >= 2

\* C23: an ARP frame that parses is answered with both sends, never one
\* alone: the worker try_sends the ArpRecieve notification, and its next
\* and only step from there try_sends the Arp record, whatever the stop and
\* pause flags are; an Arp record is dissected by no other step.  Each of
\* the two is queued when the channel has room at its send.
C23_ArpEmitsNotificationAndRecord ==
    [][/\ \A t \in WorkerIds :
             /\ threads'[t].pc = "arp" /\ threads[t].pc # "arp" =>
                   /\ threads[t].pc = "recv"
                   /\ chan' = Sent(ArpRecieveAction)
             /\ threads[t].pc = "arp" /\ threads'[t] # threads[t] =>
                   /\ threads'[t].pc = "check"
                   /\ clock' = clock + 1
                   /\ chan' = Sent(PacketDumpAction(clock', "Arp", "Arp"))
       /\ \A k \in 1..Len(chan') :
             /\ chan'[k].type = "PacketDump"
             /\ chan'[k].packet_type = "Arp"
             /\ chan'[k].time = clock'
             /\ clock' # clock
             => \E t \in WorkerIds :
                   threads[t].pc = "arp" /\ threads'[t].pc = "check"]_vars

\* C23 witness: the notification and the record of one ARP frame are in
\* the channel, the notification first.
C23_Witness ==
    \E k \in 1..(Len(chan) - 1) :
        /\ chan[k] = ArpRecieveAction
        /\ chan[k + 1].type = "PacketDump"
        /\ chan[k + 1].packet_type = "Arp"

\* The ICMP types handle_icmp_packet builds a record for.
EchoTypes == {"EchoRequest", "EchoReply"}

\* The Icmp records the UI actor holds or is about to receive.
IcmpRecords ==
    {Deque("Icmp")[k][2] : k \in 1..Len(Deque("Icmp"))}
    \cup {Deque("All")[k][2] :
             k \in {j \in 1..Len(Deque("All")) : Deque("All")[j][2].kind = "Icmp"}}
    \cup {chan[k].packet :
             k \in {j \in 1..Len(chan) : /\ chan[j].type = "PacketDump"
                                         /\ chan[j].packet_type = "Icmp"}}

\* C24: an ICMP frame is dissected into an Icmp record only when its type
\* is EchoRequest or EchoReply (and the echo packet parses), and the record
\* carries that type; for every other type the worker sends nothing, so the
\* Icmp and All histories hold no record of another type.
C24_IcmpOnlyEcho ==
    /\ \A f \in IcmpFrames :
          LET msgs == OnPacket("A", f, clock + 1)
          IN  IF f.icmp_type \in EchoTypes /\ f.l4_ok /\ f.echo_ok
              THEN msgs = <<PacketDumpAction(clock + 1,
                                [kind |-> "Icmp", icmp_type |-> f.icmp_type],
                                "Icmp")>>
              ELSE msgs = <<>>
    /\ \A r \in IcmpRecords : r.icmp_type \in EchoTypes

\* C24 witness: two ICMP frames were dissected and the Icmp history holds
\* an EchoRequest record and an EchoReply record.
C24_Witness ==
    /\ Len(Deque("Icmp")) = 2
    /\ {Deque("Icmp")[k][2].icmp_type : k \in 1..2} = EchoTypes
    /\ clock = 2

\* C25: on the interface the loopback/point-to-point adjustment applies
\* to, a packet whose version nibble is neither 4 nor 6 is dropped: the
\* worker that reads it sends nothing.
C25_OtherVersionDropped ==
    \A t \in WorkerIds :
        threads[t].pc = "recv" /\ NeedsAdjustment(threads[t].iface) =>
            \A f \in Frames :
                f.has_payload /\ f.peek_ok /\ f.version \notin {4, 6} =>
                    OnPacket(threads[t].iface, f, clock + 1) = <<>>

\* C26: an export whose writes fail does not set the confirmation flag:
\* export_done becomes true only in an export that wrote all its files.
C26_ExportDoneOnlyOnSuccess ==
    [][(~export_done /\ export_done') => exported' = ExportFiles]_vars

\* C27: shutdown always returns, whatever the worker does: while it waits
\* the stop flag is set and loop_thread is already None, and the wait ends
\* with the UI thread back in its loop, the handle joined or dropped.
C27_ShutdownTerminates ==
    /\ [](ui_pc = "shutdown_wait" => dump_stop /\ loop_thread = None)
    /\ (ui_pc = "shutdown_wait") ~>
          (ui_pc = "idle" /\ handle = None /\ loop_thread = None /\ dump_stop)

\* C27 witness: shutdown has returned while the worker it could not wait
\* for is still in t_logic.
C27_Witness ==
    /\ ui_pc = "idle"
    /\ dump_stop
    /\ loop_thread = None
    /\ \E t \in WorkerIds : Alive(threads[t])

\* C28: update(ActiveInterface(i)) always records i.  The first time (no
\* interface before) it starts a worker on i, given the handler is
\* registered, and leaves the stop flag and changed_interface alone; every
\* later time it sets the stop flag and marks the interface changed, takes
\* the handle of the current worker to wait for it, and spawns nothing.
C28_ActiveInterfaceStartsOrRestarts ==
    ui_pc = "idle" =>
        \A i \in Interfaces :
            LET w == After([type |-> "ActiveInterface", interface |-> i])
                \* the state update's first lines (the deferred start) leave
                w0 == check_changed_interface(World)
            IN  /\ w.active_interface = i
                /\ IF active_interface = NoInterface
                   THEN /\ w.dump_stop = dump_stop
                        /\ ~w.changed_interface
                        /\ w.ui_pc = "idle"
                        /\ (action_tx /\ w.in_bounds) =>
                              /\ w.loop_thread # None
                              /\ threads[w.loop_thread].pc = "idle"
                              /\ w.threads[w.loop_thread].pc = "open"
                              /\ w.threads[w.loop_thread].iface = i
                   ELSE /\ w.dump_stop
                        /\ w.changed_interface
                        /\ w.threads = store_stop(w0).threads
                        /\ w0.loop_thread # None =>
                              /\ w.loop_thread = None
                              /\ w.handle = w0.loop_thread
                              /\ w.ui_pc = "restart_wait"

\* C28 witness: interface A was selected first and its worker runs; then
\* B was selected: the stop flag is set, the change is marked, and no
\* worker for B exists yet.
C28_Witness ==
    /\ active_interface = "B"
    /\ changed_interface
    /\ dump_stop
    /\ \E t \in WorkerIds : threads[t].iface = "A" /\ InLoop(threads[t])
    /\ \A t \in WorkerIds : threads[t].iface # "B"

\* C29: the histories change only when update accepts a PacketDump, and
\* then only by an append at the tail (the head dropped from a full one)
\* of the record's bucket and of All: tab change, interface selection,
\* pause and resume, Clear and the packet-type keys leave every history as
\* it was.
C29_HistoriesAppendOnly ==
    [][histories' # histories =>
          /\ ~dump_paused
          /\ Len(accepted') = Len(accepted) + 1
          /\ \E kind \in PacketsInfoTypesEnum :
                LET a == accepted'[Len(accepted')]
                IN  /\ kind = a.packet_type
                    /\ AppendedAtTail(Deque(kind), Deque(kind)', Entry(a))
                    /\ AppendedAtTail(Deque("All"), Deque("All")', Entry(a))
                    /\ \A other \in PacketsInfoTypesEnum \ {kind} :
                           Deque(other)' = Deque(other)]_vars

\* C29 witness: the All history is full, and since then the interface was
\* changed, capture was paused (a record was discarded) and the packet
\* type was changed.
C29_Witness ==
    /\ Len(Deque("All")) = MAX_PACKET_HISTORY
    /\ active_interface = "B"
    /\ changed_interface
    /\ dump_paused
    /\ discarded > 0
    /\ packet_type = "Tcp"

\* C30: in the Packets tab update(ModeChange(m)) sets mode to m and, the
\* action handler being registered, try_sends AppModeChange(m) on the
\* action channel (queued when the channel has room); nothing else of the
\* component changes.
C30_ModeChangeSetsModeAndSends ==
    InPacketsTab =>
        \A m \in Modes :
            LET w == After([type |-> "ModeChange", mode |-> m])
            IN  /\ w.mode = m
                /\ w.chan = IF action_tx THEN Sent(AppModeChangeAction(m))
                            ELSE chan
                /\ [w EXCEPT !.mode = mode, !.chan = chan] = World

\* C30 as stated, for every tab: update(ModeChange(m)) sets mode to m.
C30_ModeChangeInAnyTab ==
    ui_pc = "idle" =>
        \A m \in Modes : After([type |-> "ModeChange", mode |-> m]).mode = m

\* C30 witness: the mode was changed to Input and the AppModeChange(Input)
\* that update sent is in the channel.
C30_Witness ==
    /\ InPacketsTab
    /\ mode = "Input"
    /\ chan # <<>>
    /\ chan[Len(chan)] = AppModeChangeAction("Input")

C32_ResumeStartsTheOnlyWorker ==
    (InPacketsTab /\ dump_paused /\ action_tx
        /\ active_interface # NoInterface) =>
        LET w == After([type |-> "DumpToggle"])
        IN  w.in_bounds =>
              /\ ~w.dump_paused
              /\ w.loop_thread # None
              /\ w.threads[w.loop_thread].iface = w.active_interface
              /\ {t \in WorkerIds : Alive(w.threads[t])} = {w.loop_thread}

\* C33: while dump_paused is true no update spawns a capture worker:
\* neither ActiveInterface nor the deferred interface-change check.
C33_NoSpawnWhilePaused ==
    [][(dump_paused /\ dump_paused') =>
          \A t \in WorkerIds : ~SpawnedNow(t)]_vars

\* C34: start_loop spawns a worker only when loop_thread is None and both
\* the action sender and the active interface are set: then one idle
\* thread starts t_logic on the active interface, loop_thread holds it, and
\* nothing else changes (the stop flag included).  In every other case
\* start_loop changes nothing at all.
C34_StartLoopGuard ==
    LET w == start_loop(World)
    IN  IF loop_thread = None /\ action_tx /\ active_interface # NoInterface
        THEN w.in_bounds =>
               /\ w.loop_thread # None
               /\ threads[w.loop_thread].pc = "idle"
               /\ w.threads[w.loop_thread].pc = "open"
               /\ w.threads[w.loop_thread].iface = active_interface
               /\ \A t \in WorkerIds \ {w.loop_thread} :
                      w.threads[t] = threads[t]
               /\ [w EXCEPT !.threads = threads, !.loop_thread = None] = World
        ELSE w = World

\* C34 witness: the handler is registered and an interface is set, but
\* loop_thread still holds the handle of a worker that has returned:
\* start_loop does nothing.
C34_Witness ==
    /\ action_tx
    /\ active_interface # NoInterface
    /\ loop_thread # None
    /\ is_finished(threads[loop_thread])
    /\ ui_pc = "idle"

\* C35: restart_loop sets the stop flag and waits for the worker it took
\* the handle of.  When the wait ends, a finished worker is joined and
\* loop_thread is None; an unfinished one has its handle stored back.
\* changed_interface stays set throughout, and is cleared only by an update
\* that finds no worker left running, which then starts the worker of the
\* active interface.
C35_RestartWaitsThenDefers ==
    /\ [](ui_pc = "restart_wait" =>
            /\ dump_stop
            /\ changed_interface
            /\ loop_thread = None
            /\ handle # None)
    /\ [][/\ ui_pc = "restart_wait" /\ ui_pc' # "restart_wait" =>
              /\ loop_thread' = IF is_finished(threads[handle])
                                THEN None ELSE handle
              /\ changed_interface' /\ dump_stop'
          /\ changed_interface /\ ~changed_interface' =>
              /\ \A t \in WorkerIds : ~Alive(threads[t])
              /\ loop_thread = None \/ is_finished(threads[loop_thread])
              /\ \E t \in WorkerIds :
                    /\ SpawnedNow(t)
                    /\ threads'[t].iface = active_interface'
                    /\ loop_thread' = t]_vars

\* C35 witness: the wait of restart_loop has timed out: the interface
\* change is pending and loop_thread holds the worker of the old
\* interface, which has not returned yet.
C35_Witness ==
    /\ ui_pc = "idle"
    /\ changed_interface
    /\ dump_stop
    /\ loop_thread # None
    /\ Alive(threads[loop_thread])
    /\ threads[loop_thread].iface # active_interface

\* The actions update matches only inside its test of the Packets tab,
\* lines 1242-1286.
GatedActions ==
    {[type |-> t] : t \in {"Up", "Down", "Left", "Right", "DumpToggle", "Clear"}}
        \cup {[type |-> "ModeChange", mode |-> m] : m \in Modes}

\* C36: on a tab other than Packets, update with Up, Down, Left, Right,
\* DumpToggle, ModeChange or Clear does nothing beyond the deferred start
\* after an interface change that every update begins with: selection,
\* packet type, pause flag, mode, input and filter_str keep their values
\* and the worker handle is the one that deferred start leaves.  TabChange,
\* ActiveInterface and PacketDump act on every tab.
C36_OtherTabsIgnoreKeys ==
    (ui_pc = "idle" /\ active_tab # "Packets") =>
        /\ \A a \in GatedActions : After(a) = check_changed_interface(World)
        /\ \A tab \in TabsEnum :
               After([type |-> "TabChange", tab |-> tab]).active_tab = tab
        /\ \A i \in {"A", "B"} :
               After([type |-> "ActiveInterface", interface |-> i])
                   .active_interface = i
        /\ \A p \in FilterPackets :
               LET a == PacketDumpAction(clock + 1, p, p.kind)
               IN  IF dump_paused
                   THEN After(a).discarded = discarded + 1
                   ELSE After(a).accepted = Append(accepted, a)

\* C36 as stated: on a tab other than Packets those actions leave the
\* selection, packet type, pause flag, mode, input, filter_str and the
\* worker handle as they were.
C36_OtherTabsLeaveHandle ==
    (ui_pc = "idle" /\ active_tab # "Packets") =>
        \A a \in GatedActions :
            LET w == After(a)
            IN  /\ w.table_state = table_state
                /\ w.packet_type = packet_type
                /\ w.dump_paused = dump_paused
                /\ w.mode = mode
                /\ w.input = input
                /\ w.filter_str = filter_str
                /\ w.loop_thread = loop_thread

\* C36 witness: on another tab, with records stored, a filter typed,
\* Input mode and capture paused, so that each of the seven actions would
\* change a field in the Packets tab.
C36_Witness ==
    /\ ui_pc = "idle"
    /\ active_tab # "Packets"
    /\ Len(all_packets.deque) >= 2
    /\ filter_str # <<>>
    /\ input # <<>>
    /\ mode = "Input"
    /\ dump_paused
    /\ loop_thread # None

\* C37: filter_str changes only by Enter in Input mode on the Packets tab,
\* when it becomes the input value (once the action handler is registered)
\* and ModeChange(Normal) is returned, or by Clear, which empties it; a key
\* in Normal mode or on another tab changes
\* nothing and returns no action; any other key in Input mode changes at
\* most the input line and returns no action.
C37_FilterChangesOnlyOnEnterOrClear ==
    /\ [](ui_pc = "idle" =>
            \A key \in Chars \cup {"Enter", "Backspace"} :
                LET w == handle_key_events(World, key)
                    a == handle_key_events_action(World, key)
                IN  IF active_tab # "Packets" \/ mode = "Normal"
                    THEN w = World /\ a = NoAction
                    ELSE IF key = "Enter"
                         THEN /\ a = [type |-> "ModeChange", mode |-> "Normal"]
                              /\ w.filter_str =
                                     IF action_tx THEN input ELSE filter_str
                              /\ [w EXCEPT !.filter_str = filter_str] = World
                         ELSE /\ a = NoAction
                              /\ [w EXCEPT !.input = input] = World)
    /\ [][filter_str' # filter_str =>
             \/ /\ active_tab = "Packets"
                /\ mode = "Input"
                /\ filter_str' = input
                /\ handle_key_events_action(World, "Enter")
                       = [type |-> "ModeChange", mode |-> "Normal"]
             \/ filter_str' = <<>> /\ input' = <<>>]_vars

\* C37 witness: in Input mode on the Packets tab Enter has made the typed
\* text the filter, and a further key would edit the input line.
C37_Witness ==
    /\ InPacketsTab
    /\ mode = "Input"
    /\ input # <<>>
    /\ filter_str = input

\* C38: a call of stop returns: it polls the task at most GiveUpAfter + 1
\* times, aborts the task at every poll after the AbortAfter-th that finds
\* it unfinished and at no other, and returns after the poll that takes the
\* counter past GiveUpAfter whether the task has finished or not.
C38_StopTerminates ==
    /\ [](tui_pc = "stop" => counter <= GiveUpAfter)
    /\ [][(tui_pc = "stop" /\ ~task_is_finished(task)) =>
             /\ event_tasks'[task].aborted
                    = (event_tasks[task].aborted \/ counter + 1 > AbortAfter)
             /\ (tui_pc' = "idle") = (counter + 1 > GiveUpAfter)]_<<counter, tui_pc>>
    /\ [][(tui_pc = "stop" /\ task_is_finished(task)) =>
             tui_pc' = "idle"]_<<counter, tui_pc>>
    /\ (tui_pc = "stop") ~> (tui_pc = "idle")

\* C38 witness: stop has returned although the task it aborted has not
\* finished.
C38_Witness ==
    /\ tui_pc = "idle"
    /\ task # 0
    /\ event_tasks[task].aborted
    /\ ~task_is_finished(task)

\* The event tasks whose clone of the token has not been cancelled.
Uncancelled ==
    {t \in TaskIds : event_tasks[t].pc # "unspawned" /\ ~cancelled[t]}

\* C39: every call of start cancels the token of the task started before
\* and gives the new task a token of its own, not yet cancelled; so at most
\* one event task holds an uncancelled token, the one start spawned last,
\* and every task started earlier eventually finishes.
C39_OneLiveEventTask ==
    /\ [](Uncancelled \subseteq {task})
    /\ [][task' # task =>
             /\ cancelled'[cancellation_token]
             /\ event_tasks[task'].pc = "unspawned"
             /\ event_tasks'[task'].pc = "init"
             /\ cancellation_token' = task'
             /\ ~cancelled'[cancellation_token']]_vars
    /\ \A t \in TaskIds :
           (event_tasks[t].pc # "unspawned" /\ task # t)
               ~> (event_tasks[t].pc = "done")

\* C39 witness: start was called twice; the first task, which had entered
\* its loop and queued its Init, has finished, and the second is in its
\* loop with the only uncancelled token.
C39_Witness ==
    /\ task = 2
    /\ event_tasks[1].pc = "done"
    /\ ~event_tasks[1].aborted
    /\ event_tasks[2].pc = "loop"
    /\ Uncancelled = {2}
    /\ Len(event_queue) >= 2
    /\ event_queue[1] = "Init"

\* C40: the event channel never holds more than its capacity; a task in
\* its loop can always take its next step (Tick, Render or whatever the
\* reader returned), and with the channel full that step drops the event:
\* the channel is as it was; a task whose Init does not fit finishes at
\* once with the channel unchanged; and whenever the channel grows, a task
\* that is in its loop has queued the event.
C40_EventTaskNeverBlocks ==
    /\ [](Len(event_queue) <= EventCap)
    /\ [](\A t \in TaskIds :
             (event_tasks[t].pc = "loop" /\ ~event_tasks[t].aborted) =>
                 /\ ENABLED TaskTick(t)
                 /\ ENABLED TaskRender(t)
                 /\ \A evt \in CrosstermEvents : ENABLED TaskCrossterm(t, evt))
    /\ [](Len(event_queue) = EventCap =>
             /\ \A evt \in CrosstermEvents :
                    on_crossterm_event(event_queue, evt) = event_queue
             /\ \A ev \in {"Init", "Tick", "Render"} :
                    event_try_send(event_queue, ev) = event_queue)
    /\ [][\A t \in TaskIds :
             (event_tasks[t].pc = "init" /\ event_tasks'[t].pc = "done") =>
                 /\ Len(event_queue) = EventCap
                 /\ event_queue' = event_queue]_vars
    /\ [][Len(event_queue') > Len(event_queue) =>
             /\ \E ev \in Events : event_queue' = Append(event_queue, ev)
             /\ \E t \in TaskIds :
                    /\ event_tasks[t].pc \in {"init", "loop"}
                    /\ event_tasks'[t].pc = "loop"]_vars

\* C40 witness: the first task filled the channel; the second, started
\* after it, could not queue its Init and has finished with its token
\* uncancelled.
C40_Witness ==
    /\ event_tasks[2].pc = "done"
    /\ ~cancelled[2]
    /\ Len(event_queue) = EventCap
    /\ \A i \in 2..Len(event_queue) : event_queue[i] # "Init"

\* C10 witness: the worker for A has exited on the stop flag and the worker
\* for B is in its read loop.
C10_Witness ==
    /\ active_interface = "B"
    /\ \E t \in WorkerIds : threads[t].iface = "A" /\ threads[t].pc = "done"
    /\ \E t \in WorkerIds : threads[t].iface = "B" /\ threads[t].pc = "recv"
    /\ OneWorkerOnB

====
